---- MODULE Spec2Model ----
(***************************************************************************)
(* Liquid Book market maker: the driver loop (main.js), one strategy cycle *)
(* (strategy.js: runCycle, manageOrder, cancelStaleOrdersIfNeeded,         *)
(* updateTradedVolume), the order book analyzer (orderbook.js) and the     *)
(* numeric helpers (utils.js).                                             *)
(*                                                                         *)
(* JavaScript numbers are modelled as exact rationals <<n, d>>, d > 0;     *)
(* <<0, 0>> stands for a value that is not a number (undefined).          *)
(* Code between two awaits runs atomically (one event-loop turn), so each  *)
(* action is one such turn: it starts at the resolution of an awaited      *)
(* gateway call and runs to the next await.                                *)
(***************************************************************************)
EXTENDS Integers, Sequences, FiniteSets, TLC

\* ------------------------------------------------------------------------
\* Bounds of the model
\* ------------------------------------------------------------------------
MaxCycles == 2
MaxTs == 2
\* largest target amount of a manageOrder call taken alone
MaxAmount == 2
\* longest side of an order book handed to calculateDepthMidPrice
MaxLevels == 2
\* largest price handed to adjustPriceToTickSize, in quarters
MaxQuarters == 12

\* ------------------------------------------------------------------------
\* Numbers
\* ------------------------------------------------------------------------
Abs(i) == IF i < 0 THEN -i ELSE i

RECURSIVE Gcd(_, _)
Gcd(a, b) == IF b = 0 THEN a ELSE Gcd(b, a % b)

Undef == <<0, 0>>
IsNumber(x) == x[2] # 0
Norm(n, d) == LET g == Gcd(Abs(n), Abs(d))
                  s == IF d < 0 THEN -1 ELSE 1
              IN  <<(s * n) \div g, (s * d) \div g>>
Q(n, d) == Norm(n, d)
Num(i) == <<i, 1>>
Zero == Num(0)
One == Num(1)
RAdd(a, b) == Norm(a[1] * b[2] + b[1] * a[2], a[2] * b[2])
RSub(a, b) == Norm(a[1] * b[2] - b[1] * a[2], a[2] * b[2])
RMul(a, b) == Norm(a[1] * b[1], a[2] * b[2])
RDiv(a, b) == Norm(a[1] * b[2], a[2] * b[1])
RNeg(a) == <<-a[1], a[2]>>
RLt(a, b) == a[1] * b[2] < b[1] * a[2]
RLe(a, b) == a[1] * b[2] <= b[1] * a[2]
RMax(a, b) == IF RLt(a, b) THEN b ELSE a
RMin(a, b) == IF RLt(b, a) THEN b ELSE a
RAbs(a) == <<Abs(a[1]), a[2]>>
\* Math.floor
Floor(a) == a[1] \div a[2]
\* Math.round: the nearest integer, halves towards +infinity
Round(a) == (2 * a[1] + a[2]) \div (2 * a[2])

\* ------------------------------------------------------------------------
\* utils.js
\* ------------------------------------------------------------------------
\* Variant of adjustPriceToTickSize that rounds the price itself, without
\* the division by the tick
adjustPriceRoundedUnscaled(price, tickSize) ==
    IF ~IsNumber(tickSize) \/ RLe(tickSize, Zero)
    THEN price
    ELSE RMul(Num(Round(price)), tickSize)

adjustPriceToTickSize(price, tickSize) ==
    IF ~IsNumber(tickSize) \/ RLe(tickSize, Zero)
    THEN price
    ELSE RMul(Num(Round(RDiv(price, tickSize))), tickSize)

\* Variant of adjustAmountToStepSize that rounds to the nearest step
adjustAmountRounded(amount, stepSize) ==
    IF ~IsNumber(stepSize) \/ RLe(stepSize, Zero)
    THEN amount
    ELSE RMul(Num(Round(RDiv(amount, stepSize))), stepSize)

adjustAmountToStepSize(amount, stepSize) ==
    IF ~IsNumber(stepSize) \/ RLe(stepSize, Zero)
    THEN amount
    ELSE RMul(Num(Floor(RDiv(amount, stepSize))), stepSize)

\* ------------------------------------------------------------------------
\* orderbook.js: a side is a sequence of <<price, volume>>
\* ------------------------------------------------------------------------
IntMin(a, b) == IF a < b THEN a ELSE b

ValidLevel(lv) == IsNumber(lv[1]) /\ IsNumber(lv[2]) /\ RLt(Zero, lv[2])

RECURSIVE WeightedSum(_, _)
WeightedSum(orders, depth) ==
    IF depth = 0 THEN Zero
    ELSE LET lv == orders[depth]
             rest == WeightedSum(orders, depth - 1)
         IN  IF ValidLevel(lv) THEN RAdd(rest, RMul(lv[1], lv[2])) ELSE rest

RECURSIVE TotalVolume(_, _)
TotalVolume(orders, depth) ==
    IF depth = 0 THEN Zero
    ELSE LET lv == orders[depth]
             rest == TotalVolume(orders, depth - 1)
         IN  IF ValidLevel(lv) THEN RAdd(rest, lv[2]) ELSE rest

calculateVwap(orders, levels) ==
    IF Len(orders) = 0 \/ levels <= 0 THEN Undef
    ELSE LET depth == IntMin(Len(orders), levels)
             totalVolume == TotalVolume(orders, depth)
         IN  IF totalVolume = Zero THEN Undef
             ELSE RDiv(WeightedSum(orders, depth), totalVolume)

\* Variant of calculateDepthMidPrice that adds the two averages and does not
\* halve the sum
calculateDepthMidPriceSum(orderBook, levels) ==
    IF ~orderBook.present THEN Undef
    ELSE LET bidVwap == calculateVwap(orderBook.bids, levels)
             askVwap == calculateVwap(orderBook.asks, levels)
         IN  IF IsNumber(bidVwap) /\ IsNumber(askVwap)
             THEN RAdd(bidVwap, askVwap)
             ELSE IF /\ Len(orderBook.bids) > 0
                     /\ Len(orderBook.asks) > 0
                     /\ IsNumber(orderBook.bids[1][1])
                     /\ IsNumber(orderBook.asks[1][1])
                  THEN RDiv(RAdd(orderBook.bids[1][1], orderBook.asks[1][1]), Num(2))
                  ELSE Undef

\* Variant of calculateDepthMidPrice without the fallback of lines 55-62
calculateDepthMidPriceNoFallback(orderBook, levels) ==
    IF ~orderBook.present THEN Undef
    ELSE LET bidVwap == calculateVwap(orderBook.bids, levels)
             askVwap == calculateVwap(orderBook.asks, levels)
         IN  IF IsNumber(bidVwap) /\ IsNumber(askVwap)
             THEN RDiv(RAdd(bidVwap, askVwap), Num(2))
             ELSE Undef

\* book: [present, bids, asks]
calculateDepthMidPrice(orderBook, levels) ==
    IF ~orderBook.present THEN Undef
    ELSE LET bidVwap == calculateVwap(orderBook.bids, levels)
             askVwap == calculateVwap(orderBook.asks, levels)
         IN  IF IsNumber(bidVwap) /\ IsNumber(askVwap)
             THEN RDiv(RAdd(bidVwap, askVwap), Num(2))
             ELSE IF /\ Len(orderBook.bids) > 0
                     /\ Len(orderBook.asks) > 0
                     /\ IsNumber(orderBook.bids[1][1])
                     /\ IsNumber(orderBook.asks[1][1])
                  THEN RDiv(RAdd(orderBook.bids[1][1], orderBook.asks[1][1]), Num(2))
                  ELSE Undef

\* Variant of the loop of getVolumeNearPrice with exclusive bounds
RECURSIVE VolumeInRangeExclusive(_, _, _, _)
VolumeInRangeExclusive(orders, i, lowerBound, upperBound) ==
    IF i = 0 THEN Zero
    ELSE LET lv == orders[i]
             rest == VolumeInRangeExclusive(orders, i - 1, lowerBound, upperBound)
         IN  IF /\ IsNumber(lv[1]) /\ IsNumber(lv[2])
                /\ RLt(lowerBound, lv[1]) /\ RLt(lv[1], upperBound)
             THEN RAdd(rest, lv[2]) ELSE rest

RECURSIVE VolumeInRange(_, _, _, _)
VolumeInRange(orders, i, lowerBound, upperBound) ==
    IF i = 0 THEN Zero
    ELSE LET lv == orders[i]
             rest == VolumeInRange(orders, i - 1, lowerBound, upperBound)
         IN  IF /\ IsNumber(lv[1]) /\ IsNumber(lv[2])
                /\ RLe(lowerBound, lv[1]) /\ RLe(lv[1], upperBound)
             THEN RAdd(rest, lv[2]) ELSE rest

getVolumeNearPrice(orders, targetPrice, priceRange) ==
    IF Len(orders) = 0 \/ RLt(priceRange, Zero) THEN Zero
    ELSE VolumeInRange(orders, Len(orders),
                       RSub(targetPrice, priceRange), RAdd(targetPrice, priceRange))

getVolumeNearPriceTicks(orders, targetPrice, rangeTicks, tickSize) ==
    IF ~IsNumber(tickSize) \/ RLe(tickSize, Zero) THEN Zero
    ELSE getVolumeNearPrice(orders, targetPrice, RMul(rangeTicks, tickSize))

\* ------------------------------------------------------------------------
\* strategy.js, runCycle: the quote plan
\*   cfg  : this.config           prec : tickSize, stepSize, minAmount
\*   snap : [orderBook, balance, position] as fetched at the cycle's start
\* ------------------------------------------------------------------------
Sides == {"buy", "sell"}

\* lines 140-151: the order book is missing, a side is empty, or a best price
\* is not a number
BookUnusable(orderBook) ==
    \/ ~orderBook.present
    \/ Len(orderBook.bids) = 0
    \/ Len(orderBook.asks) = 0
    \/ ~IsNumber(orderBook.bids[1][1])
    \/ ~IsNumber(orderBook.asks[1][1])

\* lines 181-182
TargetSpreadAbs(cfg, depthMidPrice) ==
    RMax(cfg.minSpread, RMin(cfg.maxSpread, RMul(depthMidPrice, cfg.targetSpreadPct)))

\* Variant of the inventory ratio without the clamp of line 201
InventoryRatioUnclamped(currentPositionSize, positionLimit) ==
    RDiv(currentPositionSize, positionLimit)

\* lines 200-201
InventoryRatio(currentPositionSize, positionLimit) ==
    RMax(Num(-1), RMin(One, RDiv(currentPositionSize, positionLimit)))

\* lines 194-218
SkewAdjustment(cfg, targetSpreadAbs, currentPositionSize) ==
    IF RLt(Zero, cfg.inventorySkewIntensity) /\ RLt(Zero, cfg.positionLimit)
    THEN RMul(RMul(targetSpreadAbs, InventoryRatio(currentPositionSize, cfg.positionLimit)),
              cfg.inventorySkewIntensity)
    ELSE Zero

\* lines 181-218: the two prices after skew, before tick alignment
SkewedPrices(cfg, depthMidPrice, currentPositionSize) ==
    LET targetSpreadAbs == TargetSpreadAbs(cfg, depthMidPrice)
        half == RDiv(targetSpreadAbs, Num(2))
        skewAdjustment == SkewAdjustment(cfg, targetSpreadAbs, currentPositionSize)
    IN  [buy  |-> RSub(RSub(depthMidPrice, half), skewAdjustment),
         sell |-> RSub(RAdd(depthMidPrice, half), skewAdjustment)]

\* lines 181-224: the two prices after skew and tick alignment
AlignedPrices(cfg, prec, depthMidPrice, currentPositionSize) ==
    LET target == SkewedPrices(cfg, depthMidPrice, currentPositionSize)
    IN  [buy  |-> adjustPriceToTickSize(target.buy, prec.tickSize),
         sell |-> adjustPriceToTickSize(target.sell, prec.tickSize)]

\* `this.tickSize` as a condition: defined and not 0
Truthy(x) == IsNumber(x) /\ x # Zero

\* Variant of the widening that does not look at the quotes again after the
\* second step
WidenCrossedUnchecked(buy, sell, tickSize) ==
    IF RLe(sell, buy) /\ Truthy(tickSize)
    THEN LET buy1 == adjustPriceToTickSize(RSub(buy, tickSize), tickSize)
         IN  IF RLe(sell, buy1)
             THEN [ok |-> TRUE, buy |-> buy1,
                   sell |-> adjustPriceToTickSize(RAdd(sell, tickSize), tickSize)]
             ELSE [ok |-> TRUE, buy |-> buy1, sell |-> sell]
    ELSE [ok |-> TRUE, buy |-> buy, sell |-> sell]

\* lines 227-241: widen crossed quotes by one tick, buy first, then sell
WidenCrossed(buy, sell, tickSize) ==
    IF RLe(sell, buy) /\ Truthy(tickSize)
    THEN LET buy1 == adjustPriceToTickSize(RSub(buy, tickSize), tickSize)
         IN  IF RLe(sell, buy1)
             THEN LET sell1 == adjustPriceToTickSize(RAdd(sell, tickSize), tickSize)
                  IN  [ok |-> ~RLe(sell1, buy1), buy |-> buy1, sell |-> sell1]
             ELSE [ok |-> TRUE, buy |-> buy1, sell |-> sell]
    ELSE [ok |-> TRUE, buy |-> buy, sell |-> sell]

\* Variant of the scaling without the cap of Math.min
LiquidityAmountUncapped(cfg, orders, targetPrice, tickSize) ==
    LET volumeNear == getVolumeNearPriceTicks(orders, targetPrice,
                                              cfg.rangeTicksForLiquidity, tickSize)
    IN  RMul(cfg.baseAmount, RDiv(volumeNear, cfg.liquidityVolumeThreshold))

\* lines 253-259
LiquidityAmount(cfg, orders, targetPrice, tickSize) ==
    LET volumeNear == getVolumeNearPriceTicks(orders, targetPrice,
                                              cfg.rangeTicksForLiquidity, tickSize)
    IN  RMul(cfg.baseAmount, RMin(One, RDiv(volumeNear, cfg.liquidityVolumeThreshold)))

\* Variant of the hard position limit that acts only beyond the limit, not
\* at it
PositionGateStrict(cfg, currentPositionSize, q) ==
    LET absPositionSize == RAbs(currentPositionSize)
    IN  IF ~RLt(Zero, cfg.positionLimit) THEN q
        ELSE IF RLt(Zero, currentPositionSize) /\ RLt(cfg.positionLimit, absPositionSize)
        THEN [q EXCEPT !.placeBuy = FALSE,
                       !.sellAmount = RMax(q.sellAmount, absPositionSize)]
        ELSE IF RLt(currentPositionSize, Zero) /\ RLt(cfg.positionLimit, absPositionSize)
        THEN [q EXCEPT !.placeSell = FALSE,
                       !.buyAmount = RMax(q.buyAmount, absPositionSize)]
        ELSE q

\* lines 271-287: the hard position limit
PositionGate(cfg, currentPositionSize, q) ==
    LET absPositionSize == RAbs(currentPositionSize)
    IN  IF ~RLt(Zero, cfg.positionLimit) THEN q
        ELSE IF RLt(Zero, currentPositionSize) /\ RLe(cfg.positionLimit, absPositionSize)
        THEN [q EXCEPT !.placeBuy = FALSE,
                       !.sellAmount = RMax(q.sellAmount, absPositionSize)]
        ELSE IF RLt(currentPositionSize, Zero) /\ RLe(cfg.positionLimit, absPositionSize)
        THEN [q EXCEPT !.placeSell = FALSE,
                       !.buyAmount = RMax(q.buyAmount, absPositionSize)]
        ELSE q

\* Variant of the plan without the step alignment of lines 290-291
StepAlignSkipped(prec, q) == q

\* lines 290-291
StepAlign(prec, q) ==
    [q EXCEPT !.buyAmount = adjustAmountToStepSize(q.buyAmount, prec.stepSize),
              !.sellAmount = adjustAmountToStepSize(q.sellAmount, prec.stepSize)]

\* lines 295-305
NotionalGate(cfg, q) ==
    LET lowBuy == /\ q.placeBuy /\ RLt(Zero, q.buyAmount)
                  /\ RLt(RMul(q.buyAmount, q.buyPrice), cfg.minNotionalValue)
        lowSell == /\ q.placeSell /\ RLt(Zero, q.sellAmount)
                   /\ RLt(RMul(q.sellAmount, q.sellPrice), cfg.minNotionalValue)
    IN  [q EXCEPT !.placeBuy = IF lowBuy THEN FALSE ELSE @,
                  !.buyAmount = IF lowBuy THEN Zero ELSE @,
                  !.placeSell = IF lowSell THEN FALSE ELSE @,
                  !.sellAmount = IF lowSell THEN Zero ELSE @]

\* Variant of the balance check that compares the amount, not its cost,
\* with the balance
BalanceGateByAmount(balance, q) ==
    LET estimatedBuyCost == q.buyAmount
    IN  IF q.placeBuy /\ RLt(balance, estimatedBuyCost) /\ RLt(Zero, estimatedBuyCost)
        THEN [q EXCEPT !.placeBuy = FALSE, !.buyAmount = Zero]
        ELSE q

\* lines 308-313
BalanceGate(balance, q) ==
    LET estimatedBuyCost == RMul(q.buyAmount, q.buyPrice)
    IN  IF q.placeBuy /\ RLt(balance, estimatedBuyCost) /\ RLt(Zero, estimatedBuyCost)
        THEN [q EXCEPT !.placeBuy = FALSE, !.buyAmount = Zero]
        ELSE q

\* `this.stepSize ?? 0.00000001`
StepTolerance(stepSize) == IF IsNumber(stepSize) THEN stepSize ELSE Q(1, 100000000)

\* Variant of the sell check that clamps without looking at the clamped
\* amount again
SellPositionGateNoRecheck(cfg, prec, currentPositionSize, q) ==
    IF q.placeSell /\ RLt(Zero, q.sellAmount) /\ RLe(Zero, currentPositionSize)
    THEN LET maxSellable == RAdd(currentPositionSize, StepTolerance(prec.stepSize))
         IN  IF RLt(maxSellable, q.sellAmount)
             THEN [q EXCEPT !.sellAmount =
                       adjustAmountToStepSize(RMax(Zero, currentPositionSize),
                                              prec.stepSize)]
             ELSE q
    ELSE q

\* lines 315-333
SellPositionGate(cfg, prec, currentPositionSize, q) ==
    IF q.placeSell /\ RLt(Zero, q.sellAmount) /\ RLe(Zero, currentPositionSize)
    THEN LET maxSellable == RAdd(currentPositionSize, StepTolerance(prec.stepSize))
         IN  IF RLt(maxSellable, q.sellAmount)
             THEN LET clamped == adjustAmountToStepSize(RMax(Zero, currentPositionSize),
                                                        prec.stepSize)
                  IN  IF \/ RLt(clamped, prec.minAmount)
                         \/ RLt(RMul(clamped, q.sellPrice), cfg.minNotionalValue)
                      THEN [q EXCEPT !.placeSell = FALSE, !.sellAmount = Zero]
                      ELSE [q EXCEPT !.sellAmount = clamped]
             ELSE q
    ELSE q

NoQuote ==
    [ok |-> FALSE, placeBuy |-> FALSE, buyAmount |-> Zero, buyPrice |-> Zero,
     placeSell |-> FALSE, sellAmount |-> Zero, sellPrice |-> Zero]

\* lines 139-259: the prices and the liquidity-scaled amounts, before the
\* gates; ok = FALSE on each path that ends in cancelStaleOrdersIfNeeded and
\* return
QuotesBeforeGates(cfg, prec, snap) ==
    IF BookUnusable(snap.orderBook) THEN NoQuote
    ELSE LET depthMidPrice == calculateDepthMidPrice(snap.orderBook, cfg.orderBookDepthLevels)
         IN  IF ~IsNumber(depthMidPrice) THEN NoQuote
             ELSE LET a == AlignedPrices(cfg, prec, depthMidPrice, snap.position)
                      w == WidenCrossed(a.buy, a.sell, prec.tickSize)
                  IN  IF ~w.ok \/ ~IsNumber(prec.tickSize) THEN NoQuote
                      ELSE [ok |-> TRUE,
                            placeBuy |-> TRUE,
                            buyAmount |-> LiquidityAmount(cfg, snap.orderBook.bids,
                                                          w.buy, prec.tickSize),
                            buyPrice |-> w.buy,
                            placeSell |-> TRUE,
                            sellAmount |-> LiquidityAmount(cfg, snap.orderBook.asks,
                                                           w.sell, prec.tickSize),
                            sellPrice |-> w.sell]

\* lines 139-333: everything runCycle computes between the fetch and the two
\* manageOrder calls
PlanQuotes(cfg, prec, snap) ==
    LET q0 == QuotesBeforeGates(cfg, prec, snap)
    IN  IF ~q0.ok THEN NoQuote
        ELSE LET q1 == PositionGate(cfg, snap.position, q0)
                 q2 == StepAlign(prec, q1)
                 q3 == NotionalGate(cfg, q2)
                 q4 == BalanceGate(snap.balance, q3)
             IN  SellPositionGate(cfg, prec, snap.position, q4)

\* ------------------------------------------------------------------------
\* Inputs: the configurations, markets and gateway answers explored
\* ------------------------------------------------------------------------
Lv(p, v) == <<Num(p), Num(v)>>
Book(bids, asks) == [present |-> TRUE, bids |-> bids, asks |-> asks]

\* config.js defaults scaled to small numbers
CfgNormal ==
    [orderBookDepthLevels |-> 2, targetSpreadPct |-> Q(1, 10),
     minSpread |-> One, maxSpread |-> Num(4),
     baseAmount |-> Num(2), liquidityVolumeThreshold |-> Num(4),
     positionLimit |-> Num(2), inventorySkewIntensity |-> Q(1, 2),
     rangeTicksForLiquidity |-> Num(2), minNotionalValue |-> Num(10)]

\* TARGET_SPREAD_PCT <= 0 only logs a warning (config.js 558-561): with a
\* negative MIN_SPREAD the target spread is negative and the quotes cross
CfgInverted ==
    [CfgNormal EXCEPT !.targetSpreadPct = Q(-1, 10), !.minSpread = Num(-4)]

Configs == {CfgNormal, CfgInverted}

\* getPrecision(market) and exchange.has['editOrder']
Markets ==
    {[tickSize |-> One, stepSize |-> One, minAmount |-> One, editOrder |-> e] :
        e \in BOOLEAN}

Books ==
    {Book(<<Lv(10, 3), Lv(9, 3)>>, <<Lv(12, 3), Lv(13, 3)>>),
     Book(<<Lv(10, 1)>>, <<Lv(12, 1)>>),
     Book(<<Lv(7, 4)>>, <<Lv(8, 4)>>),
     Book(<<Lv(4, 4)>>, <<Lv(6, 4)>>),
     Book(<<Lv(10, 3)>>, <<>>),
     Book(<<<<Undef, Num(3)>>>>, <<Lv(12, 3)>>),
     [present |-> FALSE, bids |-> <<>>, asks |-> <<>>]}

Balances == {Num(5), Num(100)}
Positions == {Num(-3), Zero, One, Num(2)}

Snapshots ==
    {[orderBook |-> b, balance |-> bal, position |-> pos] :
        b \in Books, bal \in Balances, pos \in Positions}

\* The ccxt error classes the code tells apart.  NoChange is an ExchangeError
\* whose message holds '-5027'; OrderNotFound also stands for an error whose
\* message holds 'Unknown order'; NetworkError for the other network errors
\* (RequestTimeout); ExchangeError for everything else.
ErrorKinds ==
    {"AuthenticationError", "ExchangeNotAvailable", "RateLimitExceeded",
     "NetworkError", "OrderNotFound", "NoChange", "ExchangeError"}

Fatal(kind) == kind = "AuthenticationError"

\* The errors the code recovers from: order not found, nothing to change,
\* and the transient ones (rate limit, exchange unavailable, network)
Recoverable(kind) ==
    kind \in {"OrderNotFound", "NoChange", "RateLimitExceeded", "ExchangeNotAvailable",
              "NetworkError"}

\* The trades of the account: one per timestamp, of amount 1 or 2
TradeAmount(t) == 1 + (t % 2)
Trades == {[timestamp |-> t, amount |-> TradeAmount(t)] : t \in 1..MaxTs}

\* What runCycle computes from a snapshot: the plan q and the prices a
\* before widening (tabulated once per configuration and market)
PlanOf(cfg, prec, snap) ==
    [q |-> PlanQuotes(cfg, prec, snap),
     a |-> IF BookUnusable(snap.orderBook) THEN [buy |-> Zero, sell |-> Zero]
           ELSE AlignedPrices(cfg, prec,
                    calculateDepthMidPrice(snap.orderBook, cfg.orderBookDepthLevels),
                    snap.position)]
Plans == [c \in Configs |-> [m \in Markets |-> {PlanOf(c, m, s) : s \in Snapshots}]]

Null == 0
NoTimestamp == -1

\* The venue's order ids are fresh; the id of the order created for a side in
\* cycle n is fixed by (n, side), which keeps ids unique
NewOrderId(cycle, side) == 2 * (cycle - 1) + (IF side = "buy" THEN 1 ELSE 2)

\* ------------------------------------------------------------------------
\* State
\* ------------------------------------------------------------------------
VARIABLES
    config,                   \* this.config
    market,                   \* tickSize, stepSize, minAmount, has.editOrder
    timeoutErrorClass,        \* ccxt.TimeoutError of the build: "defined", "missing",
                              \* or "unknown" until main.js first reads it
    running,                  \* main.js: running
    mainPc,                   \* where main() stands
    exchangeServiceInstance,  \* main.js: set once the gateway is constructed
    cyclePc,                  \* where runCycle stands
    currentOrderId,           \* currentBuyOrderId / currentSellOrderId
    mo,                       \* the two manageOrder activations of the cycle
    totalTradedBaseVolume,
    lastTradeTimestamp,
    \* history of the run, read by the properties only
    cycles,                   \* number of runCycle calls so far
    calls,                    \* gateway order calls issued in this cycle, by side
    cancelled,                \* ids a cancel was issued for in this cycle
    orderLog,                 \* the order calls of the run: ids placed, ids a cancel
                              \* was issued for (both kept while a side tracks the
                              \* id, and to the end of the cycle), a call issued after
                              \* a cancel, the outcomes of the calls of cancelAllOrders
    quote,                    \* the plan of this cycle
    aligned,                  \* the prices of this cycle before widening
    skipped,                  \* this cycle hit a validation failure
    caught,                   \* the error runCycle's catch block received
    cleanupRan,               \* cancelStaleOrdersIfNeeded ran in this cycle
    ended,                    \* how the last runCycle ended
    thrown,                   \* what it threw
    fatalSeen,                \* a gateway call of this cycle failed Fatal
    recoverableSeen,          \* a gateway call of this cycle failed recoverably
    tradesAnswer,             \* what fetchMyTrades answered in this cycle
    refetched,                \* that answer held a trade already counted
    counted,                  \* trades added to totalTradedBaseVolume so far
    recounted,                \* a trade was added a second time
    \* one call of manageOrder taken alone (ReconcileSpec)
    request,                  \* its arguments: side, shouldPlace, amount, price
    answers,                  \* what the venue answered to its edit, cancel, create
    \* one cycle taken alone (CycleSpec)
    sideAnswers,              \* per side, what the venue answered to manageOrder
    \* the volume update taken alone (VolumeSpec)
    venue,                    \* the trades of the account at the venue, and the
                              \* largest timestamp fetchMyTrades has returned
    \* one call of a pure function taken alone (FnSpec)
    fnCall,                   \* the function and its arguments
    fnResult                  \* the value it returned

envVars == <<config, market, request, answers, sideAnswers, venue, fnCall, fnResult>>
volVars == <<totalTradedBaseVolume, lastTradeTimestamp, counted, recounted>>
ghostVars == <<tradesAnswer, refetched>>
planVars == <<quote, aligned, skipped>>
\* what the start of a cycle resets
cycleVars == <<cyclePc, cycles, calls, cancelled, mo, quote, aligned, skipped, caught,
               cleanupRan, ended, thrown, fatalSeen, recoverableSeen, tradesAnswer,
               refetched>>
\* what the end of a cycle sets
endVars == <<cyclePc, ended, thrown, mainPc, running, timeoutErrorClass>>
vars == <<config, market, timeoutErrorClass, running, mainPc, exchangeServiceInstance,
          cyclePc, currentOrderId, mo, totalTradedBaseVolume, lastTradeTimestamp,
          cycles, calls, cancelled, orderLog, quote, aligned, skipped, caught, cleanupRan,
          ended, thrown, fatalSeen, recoverableSeen, tradesAnswer, refetched, counted,
          recounted, request, answers, sideAnswers, venue, fnCall, fnResult>>

MoRec(pc, shouldPlace, targetAmount, targetPrice, orderId) ==
    [pc |-> pc, shouldPlace |-> shouldPlace, targetAmount |-> targetAmount,
     targetPrice |-> targetPrice, orderId |-> orderId]
MoIdle == MoRec("idle", FALSE, Zero, Zero, Null)
NoCalls == [create |-> 0, edit |-> 0, cancel |-> 0]
NoPrices == [buy |-> Zero, sell |-> Zero]
NoRequest == [side |-> "none", shouldPlace |-> FALSE, amount |-> Zero, price |-> Zero]
NoAnswers == [edit |-> "none", cancel |-> "none", create |-> "none"]
NoVenue == [trades |-> {}, returned |-> 0]
NoLog == [placed |-> {}, cancelIssued |-> {}, reissued |-> FALSE, cancelAll |-> <<>>]
NoCall == [fn |-> "none"]
NoResult == [times |-> 0, value |-> Undef, previous |-> Undef]

Init ==
    /\ config \in Configs
    /\ market \in Markets
    /\ timeoutErrorClass = "unknown"
    /\ running = TRUE
    /\ mainPc = "start"
    /\ exchangeServiceInstance = FALSE
    /\ cyclePc = "idle"
    /\ currentOrderId = [s \in Sides |-> Null]
    /\ mo = [s \in Sides |-> MoIdle]
    /\ totalTradedBaseVolume = 0
    /\ lastTradeTimestamp = NoTimestamp
    /\ cycles = 0
    /\ calls = [s \in Sides |-> NoCalls]
    /\ cancelled = {}
    /\ orderLog = NoLog
    /\ quote = NoQuote
    /\ aligned = NoPrices
    /\ skipped = FALSE
    /\ caught = "none"
    /\ cleanupRan = FALSE
    /\ ended = "no"
    /\ thrown = "none"
    /\ fatalSeen = FALSE
    /\ recoverableSeen = FALSE
    /\ tradesAnswer = "none"
    /\ refetched = FALSE
    /\ counted = {}
    /\ recounted = FALSE
    /\ request = NoRequest
    /\ answers = NoAnswers
    /\ sideAnswers = [s \in Sides |-> NoAnswers]
    /\ venue = NoVenue
    /\ fnCall = NoCall
    /\ fnResult = NoResult

\* ------------------------------------------------------------------------
\* exchange.js
\* ------------------------------------------------------------------------
\* cancelOrder, lines 320-339: the answer of the venue is "ok" or an error
\* kind; the method returns true or false and never rethrows
cancelOrder(answer) ==
    IF answer \in {"ok", "OrderNotFound"} THEN "true" ELSE "false"

\* cancelAllOrders, lines 345-358: throws only while the market is not loaded
cancelAllOrders(marketLoaded, answer) ==
    IF ~marketLoaded THEN "throw"
    ELSE IF answer = "ok" THEN "true" ELSE "false"

\* ------------------------------------------------------------------------
\* strategy.js, manageOrder: each operator is one turn of the function and
\* gives the activation record, the tracked id of the side and the gateway
\* call the turn ends in ("none" when the function has returned)
\* ------------------------------------------------------------------------
\* Variant of lines 480-511 without the conditions on the flag and on the
\* minimum amount: whatever may be placed is placed
PlaceOrFinishUnconditional(m, tracked, placeNewOrder) ==
    IF placeNewOrder
    THEN [mo |-> [m EXCEPT !.pc = "create"], id |-> tracked, call |-> "create"]
    ELSE [mo |-> [m EXCEPT !.pc = "done"], id |-> tracked, call |-> "none"]

\* lines 480-511
PlaceOrFinish(m, tracked, placeNewOrder) ==
    IF placeNewOrder /\ m.shouldPlace /\ RLe(market.minAmount, m.targetAmount)
    THEN [mo |-> [m EXCEPT !.pc = "create"], id |-> tracked, call |-> "create"]
    ELSE IF placeNewOrder
    THEN [mo |-> [m EXCEPT !.pc = "done"], id |-> Null, call |-> "none"]
    ELSE [mo |-> [m EXCEPT !.pc = "done"], id |-> tracked, call |-> "none"]

\* Variant of manageOrderStart without the minimum-amount check of lines
\* 395-399
manageOrderStartNoMinimum(shouldPlace, targetAmount, targetPrice, tracked) ==
    IF tracked # Null
    THEN LET m == MoRec("start", shouldPlace, targetAmount, targetPrice, tracked)
         IN  IF shouldPlace
             THEN IF market.editOrder
                  THEN [mo |-> [m EXCEPT !.pc = "edit"], id |-> tracked, call |-> "edit"]
                  ELSE [mo |-> [m EXCEPT !.pc = "cancelUnsupported"], id |-> tracked,
                        call |-> "cancel"]
             ELSE [mo |-> [m EXCEPT !.pc = "cancel"], id |-> tracked, call |-> "cancel"]
    ELSE PlaceOrFinish(MoRec("start", shouldPlace, targetAmount, targetPrice, Null),
                       Null, TRUE)

\* Variant of manageOrderStart without the capability test of line 413:
\* every venue is handled as one without editOrder
manageOrderStartNoEdit(shouldPlace, targetAmount, targetPrice, tracked) ==
    IF tracked # Null
    THEN LET low == RLt(targetAmount, market.minAmount)
             sp == shouldPlace /\ ~low
             amt == IF low THEN Zero ELSE targetAmount
             m == MoRec("start", sp, amt, targetPrice, tracked)
         IN  IF sp
             THEN [mo |-> [m EXCEPT !.pc = "cancelUnsupported"], id |-> tracked,
                   call |-> "cancel"]
             ELSE [mo |-> [m EXCEPT !.pc = "cancel"], id |-> tracked, call |-> "cancel"]
    ELSE PlaceOrFinish(MoRec("start", shouldPlace, targetAmount, targetPrice, Null),
                       Null, TRUE)

\* lines 378-431 and 459-462, 474-476: from the call to the first await
manageOrderStart(shouldPlace, targetAmount, targetPrice, tracked) ==
    IF tracked # Null
    THEN LET low == RLt(targetAmount, market.minAmount)
             sp == shouldPlace /\ ~low
             amt == IF low THEN Zero ELSE targetAmount
             m == MoRec("start", sp, amt, targetPrice, tracked)
         IN  IF sp
             THEN IF market.editOrder
                  THEN [mo |-> [m EXCEPT !.pc = "edit"], id |-> tracked, call |-> "edit"]
                  ELSE [mo |-> [m EXCEPT !.pc = "cancelUnsupported"], id |-> tracked,
                        call |-> "cancel"]
             ELSE [mo |-> [m EXCEPT !.pc = "cancel"], id |-> tracked, call |-> "cancel"]
    ELSE PlaceOrFinish(MoRec("start", shouldPlace, targetAmount, targetPrice, Null),
                       Null, TRUE)

\* Variant of the catch block without the branch of lines 435-438: "nothing
\* to change" is handled as any other error
EditCatchNoChangeAsError(m, tracked, kind) ==
    IF kind = "OrderNotFound"
    THEN PlaceOrFinish(m, Null, TRUE)
    ELSE [mo |-> [m EXCEPT !.pc = "cancelFallback"], id |-> tracked, call |-> "cancel"]

\* Variant of the catch block without the branch of lines 440-444: "order
\* not found" is handled as any other error
EditCatchNotFoundAsError(m, tracked, kind) ==
    IF kind = "NoChange"
    THEN PlaceOrFinish(m, tracked, FALSE)
    ELSE [mo |-> [m EXCEPT !.pc = "cancelFallback"], id |-> tracked, call |-> "cancel"]

\* lines 432-457: the catch block around the edit
EditCatch(m, tracked, kind) ==
    IF kind = "NoChange"
    THEN PlaceOrFinish(m, tracked, FALSE)
    ELSE IF kind = "OrderNotFound"
    THEN PlaceOrFinish(m, Null, TRUE)
    ELSE [mo |-> [m EXCEPT !.pc = "cancelFallback"], id |-> tracked, call |-> "cancel"]

\* lines 414-421: the edit call answered
AfterEdit(m, tracked, answer) ==
    IF answer = "ok" THEN PlaceOrFinish(m, tracked, FALSE)
    ELSE EditCatch(m, tracked, answer)

\* Variant of the cancel turn that replaces the order only when the cancel
\* went through: after a failed cancel the id is kept and nothing is placed
AfterCancelReplaceIfGone(m, tracked, result, answer) ==
    IF m.pc \in {"cancelUnsupported", "cancelFallback"}
    THEN IF result = "true" THEN PlaceOrFinish(m, Null, TRUE)
         ELSE PlaceOrFinish(m, tracked, FALSE)
    ELSE PlaceOrFinish(m, Null, FALSE)

\* Variant of the cancel turn that clears the id only when the cancel went
\* through, without the finally block of lines 469-472
AfterCancelClearIfGone(m, tracked, result, answer) ==
    IF m.pc \in {"cancelUnsupported", "cancelFallback"}
    THEN PlaceOrFinish(m, Null, TRUE)
    ELSE IF result = "true" THEN PlaceOrFinish(m, Null, FALSE)
    ELSE PlaceOrFinish(m, tracked, FALSE)

\* the cancel call answered: lines 426-428 (edit unsupported), 449-456 (after
\* a failed edit), 462-472 (nothing to quote)
AfterCancel(m, tracked, result, answer) ==
    IF m.pc = "cancelUnsupported"
    THEN IF result = "throw" THEN EditCatch(m, tracked, answer)
         ELSE PlaceOrFinish(m, Null, TRUE)
    ELSE IF m.pc = "cancelFallback"
    THEN PlaceOrFinish(m, Null, TRUE)
    ELSE PlaceOrFinish(m, Null, FALSE)

\* Variant of AfterCreate that places again after a failed placement
AfterCreateRetry(m, newId, answer) ==
    IF answer = "ok"
    THEN [mo |-> [m EXCEPT !.pc = "done"], id |-> newId, call |-> "none"]
    ELSE [mo |-> m, id |-> Null, call |-> "create"]

\* Variant of AfterCreate without the check of line 484: whatever the venue
\* returns without throwing is tracked
AfterCreateUnchecked(m, newId, answer) ==
    [mo |-> [m EXCEPT !.pc = "done"],
     id |-> IF answer \in {"ok", "noId"} THEN newId ELSE Null,
     call |-> "none"]

\* lines 483-500: the create call answered; "noId" is an answer without id
AfterCreate(m, newId, answer) ==
    [mo |-> [m EXCEPT !.pc = "done"], id |-> IF answer = "ok" THEN newId ELSE Null,
     call |-> "none"]

\* ------------------------------------------------------------------------
\* strategy.js, updateTradedVolume
\* ------------------------------------------------------------------------
RECURSIVE SumAmounts(_)
SumAmounts(S) ==
    IF S = {} THEN 0
    ELSE LET t == CHOOSE x \in S : TRUE IN t.amount + SumAmounts(S \ {t})

RECURSIVE MaxTimestamp(_, _)
MaxTimestamp(S, least) ==
    IF S = {} THEN least
    ELSE LET t == CHOOSE x \in S : TRUE
             rest == MaxTimestamp(S \ {t}, least)
         IN  IF t.timestamp > rest THEN t.timestamp ELSE rest

\* `this.lastTradeTimestamp ?? 0`
OrZero(ts) == IF ts = NoTimestamp THEN 0 ELSE ts

\* Variant of the filter of line 102 with an inclusive boundary
IsNewTradeInclusive(trade, last) == trade.timestamp >= OrZero(last)

\* line 102: the trades of an answer that are added
IsNewTrade(trade, last) == trade.timestamp > OrZero(last)
NewTrades(trades, last) == {t \in trades : IsNewTrade(t, last)}

\* Variant of the update that advances the timestamp whenever the answer
\* holds trades, new or not
VolumeAfterTradesAlwaysAdvancing(total, last, trades) ==
    LET new == NewTrades(trades, last)
        newVolume == SumAmounts(new)
        latestTimestamp == MaxTimestamp(new, OrZero(last))
    IN  IF trades # {}
        THEN [total |-> total + newVolume, last |-> latestTimestamp + 1, added |-> new]
        ELSE [total |-> total, last |-> last, added |-> {}]

\* Variant of the update that sets the timestamp to the latest trade's own
VolumeAfterTradesNoIncrement(total, last, trades) ==
    LET new == NewTrades(trades, last)
        newVolume == SumAmounts(new)
        latestTimestamp == MaxTimestamp(new, OrZero(last))
    IN  IF newVolume > 0
        THEN [total |-> total + newVolume, last |-> latestTimestamp, added |-> new]
        ELSE [total |-> total, last |-> last, added |-> {}]

\* lines 96-120, the fetch having succeeded with `trades`
VolumeAfterTrades(total, last, trades) ==
    LET new == NewTrades(trades, last)
        newVolume == SumAmounts(new)
        latestTimestamp == MaxTimestamp(new, OrZero(last))
    IN  IF newVolume > 0
        THEN [total |-> total + newVolume, last |-> latestTimestamp + 1, added |-> new]
        ELSE [total |-> total, last |-> last, added |-> {}]

\* Variant of the catch block that rethrows
VolumeAfterFailureRethrown(total, last, kind) ==
    [total |-> total, last |-> last, added |-> {}, rethrown |-> TRUE]

\* lines 121-124: the catch block; nothing is rethrown
VolumeAfterFailure(total, last, kind) ==
    [total |-> total, last |-> last, added |-> {}, rethrown |-> FALSE]

\* ------------------------------------------------------------------------
\* main.js: what the driver does with the end of a cycle
\* ------------------------------------------------------------------------
\* lines 29-46 and 53-55: runCycle threw `kind`.  A build of ccxt without
\* a TimeoutError class makes the first instanceof throw a TypeError, which
\* leaves the loop through the outer catch.
MainCatch(kind, run, hasTimeoutError) ==
    IF hasTimeoutError = "missing" THEN [running |-> FALSE, backoff |-> FALSE]
    ELSE IF kind = "RateLimitExceeded" THEN [running |-> run, backoff |-> TRUE]
    ELSE IF kind = "AuthenticationError" THEN [running |-> FALSE, backoff |-> FALSE]
    ELSE IF kind \in {"ExchangeNotAvailable", "NetworkError"}
    THEN [running |-> run, backoff |-> TRUE]
    ELSE [running |-> run, backoff |-> FALSE]

\* Variant of the end of the loop without the finally block of lines 56-68:
\* the process exits as soon as the loop ends
AfterCycleWithoutCleanup(run, backoff) ==
    IF backoff THEN "backoff" ELSE IF run THEN "sleep" ELSE "exited"

\* lines 26 and 47-50: after the try statement of the loop body
AfterCycle(run, backoff) ==
    IF backoff THEN "backoff" ELSE IF run THEN "sleep" ELSE "final"

\* strategy.js lines 351-365: what the catch block of runCycle does with an
\* error of the try block: rethrow it, sleep and clean up, clean up at once,
\* or fail on `this.exchange.rateLimit` (this.exchange is not a field of the
\* strategy, so the read throws a TypeError)
RunCycleCatch(kind) ==
    IF kind = "AuthenticationError" THEN [do |-> "throw", kind |-> kind]
    ELSE IF kind = "ExchangeNotAvailable" THEN [do |-> "sleep", kind |-> kind]
    ELSE IF kind = "RateLimitExceeded" THEN [do |-> "throw", kind |-> "TypeError"]
    ELSE [do |-> "cleanup", kind |-> kind]

\* ------------------------------------------------------------------------
\* Fragments of actions
\* ------------------------------------------------------------------------
Answers == {"ok"} \cup ErrorKinds

NoteError(answer) ==
    /\ fatalSeen' = (fatalSeen \/ Fatal(answer))
    /\ recoverableSeen' = (recoverableSeen \/ Recoverable(answer))

Issue(cs, side, call) ==
    IF call = "none" THEN cs ELSE [cs EXCEPT ![side][call] = @ + 1]

\* runCycle returns: main.js goes on after the try statement
ReturnToMain ==
    /\ cyclePc' = "idle"
    /\ ended' = "returned"
    /\ thrown' = "none"
    /\ mainPc' = AfterCycle(running, FALSE)
    /\ running' = running
    /\ timeoutErrorClass' = timeoutErrorClass

\* runCycle throws `kind`: the catch block of the loop body runs
ThrowToMain(kind) ==
    \E cls \in IF timeoutErrorClass = "unknown" THEN {"defined", "missing"}
                ELSE {timeoutErrorClass} :
        LET r == MainCatch(kind, running, cls)
        IN  /\ timeoutErrorClass' = cls
            /\ cyclePc' = "idle"
            /\ ended' = "threw"
            /\ thrown' = kind
            /\ running' = r.running
            /\ mainPc' = AfterCycle(r.running, r.backoff)

\* the log at the start of a cycle: the ids no side tracks are dropped; the
\* venue returns no id twice and every call takes its id from the tracked
\* ids (lines 379, 518-519), so no later call can name them
LogAtCycleStart(log, tracked) ==
    LET held == {tracked[s] : s \in Sides}
    IN  [log EXCEPT !.placed = {p \in @ : p.id \in held},
                    !.cancelIssued = @ \cap held]

\* `while (running)`: main.js line 26, and the call of runCycle up to its
\* first await (the four fetches)
EnterLoop ==
    IF running
    THEN /\ cycles < MaxCycles
         /\ mainPc' = "cycle"
         /\ cyclePc' = "fetch"
         /\ cycles' = cycles + 1
         /\ calls' = [s \in Sides |-> NoCalls]
         /\ cancelled' = {}
         /\ orderLog' = LogAtCycleStart(orderLog, currentOrderId)
         /\ mo' = [s \in Sides |-> MoIdle]
         /\ quote' = NoQuote
         /\ aligned' = NoPrices
         /\ skipped' = FALSE
         /\ caught' = "none"
         /\ cleanupRan' = FALSE
         /\ ended' = "no"
         /\ thrown' = "none"
         /\ fatalSeen' = FALSE
         /\ recoverableSeen' = FALSE
         /\ tradesAnswer' = "none"
         /\ refetched' = FALSE
    ELSE /\ mainPc' = "final"
         /\ UNCHANGED <<cycleVars, orderLog>>

\* the log after a gateway call for order `id` of `side` was issued (an edit
\* or a cancel of manageOrder, a cancel of cancelStaleOrdersIfNeeded), or
\* after createFn returned `id` (line 487)
LogStep(log, side, call, id) ==
    IF call = "cancel"
    THEN [log EXCEPT !.reissued = @ \/ id \in log.cancelIssued,
                     !.cancelIssued = @ \cup {id}]
    ELSE IF call = "edit"
    THEN [log EXCEPT !.reissued = @ \/ id \in log.cancelIssued]
    ELSE IF call = "placed"
    THEN [log EXCEPT !.placed = @ \cup {[side |-> side, id |-> id]}]
    ELSE log

\* the ids cancelStaleOrdersIfNeeded finds, lines 518-547
StaleSides == {s \in Sides : currentOrderId[s] # Null}

\* Variant of the cleanup whose caller does not await it: the cancels are
\* issued and runCycle returns at once
StartCleanupNotAwaited ==
    /\ cleanupRan' = TRUE
    /\ currentOrderId' = [s \in Sides |-> Null]
    /\ cancelled' = cancelled \cup {currentOrderId[s] : s \in StaleSides}
    /\ orderLog' = LET b == IF "buy" \in StaleSides
                             THEN LogStep(orderLog, "buy", "cancel", currentOrderId["buy"])
                             ELSE orderLog
                    IN  IF "sell" \in StaleSides
                        THEN LogStep(b, "sell", "cancel", currentOrderId["sell"])
                        ELSE b
    /\ calls' = [s \in Sides |->
                    IF s \in StaleSides THEN [calls[s] EXCEPT !.cancel = @ + 1]
                    ELSE calls[s]]
    /\ mo' = [s \in Sides |->
                 IF s \in StaleSides
                 THEN MoRec("staleCancel", FALSE, Zero, Zero, currentOrderId[s])
                 ELSE MoIdle]
    /\ cyclePc' = IF StaleSides = {} THEN "idle" ELSE "cleanup"
    /\ ended' = "returned"
    /\ thrown' = "none"
    /\ mainPc' = AfterCycle(running, FALSE)
    /\ running' = running
    /\ timeoutErrorClass' = timeoutErrorClass

\* Variant of the cleanup without lines 523 and 537: the ids stay tracked
\* while and after their cancels are issued
StartCleanupKeepingIds ==
    /\ cleanupRan' = TRUE
    /\ currentOrderId' = currentOrderId
    /\ cancelled' = cancelled \cup {currentOrderId[s] : s \in StaleSides}
    /\ orderLog' = LET b == IF "buy" \in StaleSides
                             THEN LogStep(orderLog, "buy", "cancel", currentOrderId["buy"])
                             ELSE orderLog
                    IN  IF "sell" \in StaleSides
                        THEN LogStep(b, "sell", "cancel", currentOrderId["sell"])
                        ELSE b
    /\ calls' = [s \in Sides |->
                    IF s \in StaleSides THEN [calls[s] EXCEPT !.cancel = @ + 1]
                    ELSE calls[s]]
    /\ mo' = [s \in Sides |->
                 IF s \in StaleSides
                 THEN MoRec("staleCancel", FALSE, Zero, Zero, currentOrderId[s])
                 ELSE MoIdle]
    /\ IF StaleSides = {}
       THEN ReturnToMain
       ELSE /\ cyclePc' = "cleanup"
            /\ UNCHANGED <<running, mainPc, ended, thrown, timeoutErrorClass>>

\* cancelStaleOrdersIfNeeded up to its await, lines 515-549; with nothing to
\* cancel it returns and so does runCycle
StartCleanup ==
    /\ cleanupRan' = TRUE
    /\ currentOrderId' = [s \in Sides |-> Null]
    /\ cancelled' = cancelled \cup {currentOrderId[s] : s \in StaleSides}
    /\ orderLog' = LET b == IF "buy" \in StaleSides
                             THEN LogStep(orderLog, "buy", "cancel", currentOrderId["buy"])
                             ELSE orderLog
                    IN  IF "sell" \in StaleSides
                        THEN LogStep(b, "sell", "cancel", currentOrderId["sell"])
                        ELSE b
    /\ calls' = [s \in Sides |->
                    IF s \in StaleSides THEN [calls[s] EXCEPT !.cancel = @ + 1]
                    ELSE calls[s]]
    /\ mo' = [s \in Sides |->
                 IF s \in StaleSides
                 THEN MoRec("staleCancel", FALSE, Zero, Zero, currentOrderId[s])
                 ELSE MoIdle]
    /\ IF StaleSides = {}
       THEN ReturnToMain
       ELSE /\ cyclePc' = "cleanup"
            /\ UNCHANGED <<running, mainPc, ended, thrown, timeoutErrorClass>>

\* Variant that goes on as soon as one activation has settled
NextAfterFirstSettled(b, s) ==
    IF b.pc = "done" \/ s.pc = "done" THEN "volume" ELSE "reconcile"

\* runCycle lines 337-348: Promise.allSettled waits for both activations,
\* whatever their outcome, then updateTradedVolume issues its fetch
NextAfterReconcile(b, s) ==
    IF b.pc = "done" /\ s.pc = "done" THEN "volume" ELSE "reconcile"

\* Variant of a turn of manageOrder that keeps one tracked id for both sides
SideStepSharedId(side, r) ==
    /\ currentOrderId' = [s \in Sides |-> r.id]
    /\ mo' = [mo EXCEPT ![side] = r.mo]
    /\ calls' = Issue(calls, side, r.call)
    /\ cancelled' = IF r.call = "cancel" THEN cancelled \cup {r.mo.orderId}
                    ELSE cancelled
    /\ orderLog' = IF mo[side].pc = "create" /\ r.id # Null
                   THEN LogStep(orderLog, side, "placed", r.id)
                   ELSE LogStep(orderLog, side, r.call, r.mo.orderId)
    /\ cyclePc' = NextAfterReconcile(mo'["buy"], mo'["sell"])

\* one turn of manageOrder for `side` with result r; when both activations
\* have returned, Promise.allSettled resolves and updateTradedVolume issues
\* its fetch (lines 337-348)
SideStep(side, r) ==
    /\ currentOrderId' = [currentOrderId EXCEPT ![side] = r.id]
    /\ mo' = [mo EXCEPT ![side] = r.mo]
    /\ calls' = Issue(calls, side, r.call)
    /\ cancelled' = IF r.call = "cancel" THEN cancelled \cup {r.mo.orderId}
                    ELSE cancelled
    /\ orderLog' = IF mo[side].pc = "create" /\ r.id # Null
                   THEN LogStep(orderLog, side, "placed", r.id)
                   ELSE LogStep(orderLog, side, r.call, r.mo.orderId)
    /\ cyclePc' = NextAfterReconcile(mo'["buy"], mo'["sell"])

\* Variant of a skipped cycle that returns without the cleanup
SkipWithoutCleanup ==
    /\ ReturnToMain
    /\ UNCHANGED <<cleanupRan, currentOrderId, cancelled, orderLog, calls, mo>>

\* runCycle lines 142-143, 149-150, 176-177, 237-238, 249-250: a skipped cycle
\* cleans up and returns
SkipCycle == StartCleanup

\* ------------------------------------------------------------------------
\* Actions: one event-loop turn each
\* ------------------------------------------------------------------------
\* main.js lines 18-19: new ExchangeService(config); it throws when the
\* exchange id is unknown, before the instance is stored
CreateService ==
    /\ mainPc = "start"
    /\ \E ok \in BOOLEAN :
          IF ok
          THEN /\ exchangeServiceInstance' = TRUE
               /\ mainPc' = "initialize"
               /\ running' = running
          ELSE /\ exchangeServiceInstance' = FALSE
               /\ mainPc' = "exited"
               /\ running' = FALSE
    /\ UNCHANGED <<envVars, volVars, cycleVars, orderLog, currentOrderId,
                   timeoutErrorClass>>

\* main.js lines 20-26 and 53-68: initialize() answered; on failure the
\* finally block calls cancelAllOrders, which throws at once when the
\* failure left no market loaded (exchange.js lines 128-135) and goes to the
\* venue when the market was loaded and then rejected (lines 140-146)
InitializeDone ==
    /\ mainPc = "initialize"
    /\ \E ok \in BOOLEAN, marketLoaded \in BOOLEAN :
          IF ok
          THEN /\ marketLoaded
               /\ EnterLoop
               /\ running' = running
          ELSE /\ running' = FALSE
               /\ IF cancelAllOrders(marketLoaded, "ok") = "throw"
                  THEN /\ mainPc' = "exited"
                       /\ orderLog' = [orderLog EXCEPT !.cancelAll = Append(@, "throw")]
                  ELSE /\ mainPc' = "final"
                       /\ orderLog' = orderLog
               /\ UNCHANGED cycleVars
    /\ UNCHANGED <<envVars, volVars, exchangeServiceInstance, currentOrderId,
                   timeoutErrorClass>>

\* Variant of the signal handler that aborts the cycle in progress
handleShutdownAborting ==
    /\ mainPc # "exited"
    /\ running
    /\ running' = FALSE
    /\ IF mainPc = "cycle"
       THEN /\ mainPc' = "final"
            /\ cyclePc' = "idle"
            /\ mo' = [s \in Sides |-> MoIdle]
            /\ UNCHANGED <<cycles, calls, cancelled, quote, aligned, skipped, caught,
                           cleanupRan, ended, thrown, fatalSeen, recoverableSeen,
                           tradesAnswer, refetched>>
       ELSE UNCHANGED <<cycleVars, mainPc>>
    /\ UNCHANGED <<envVars, volVars, orderLog, exchangeServiceInstance, currentOrderId,
                   timeoutErrorClass>>

\* main.js lines 72-87: SIGINT or SIGTERM
handleShutdown ==
    /\ mainPc # "exited"
    /\ running
    /\ running' = FALSE
    /\ UNCHANGED <<envVars, volVars, cycleVars, orderLog, mainPc,
                   exchangeServiceInstance, currentOrderId, timeoutErrorClass>>

\* runCycle lines 132-340: the fetches answered and the plan allows quoting;
\* both manageOrder calls run to their first await
FetchQuoted ==
    /\ cyclePc = "fetch"
    /\ \E p \in Plans[config][market] :
          LET q == p.q
              rb == manageOrderStart(q.placeBuy, q.buyAmount, q.buyPrice,
                                     currentOrderId["buy"])
              rs == manageOrderStart(q.placeSell, q.sellAmount, q.sellPrice,
                                     currentOrderId["sell"])
          IN  /\ q.ok
              /\ quote' = q
              /\ aligned' = p.a
              /\ currentOrderId' = [buy |-> rb.id, sell |-> rs.id]
              /\ mo' = [buy |-> rb.mo, sell |-> rs.mo]
              /\ calls' = Issue(Issue(calls, "buy", rb.call), "sell", rs.call)
              /\ cancelled' = cancelled
                    \cup (IF rb.call = "cancel" THEN {rb.mo.orderId} ELSE {})
                    \cup (IF rs.call = "cancel" THEN {rs.mo.orderId} ELSE {})
              /\ orderLog' = LogStep(LogStep(orderLog, "buy", rb.call, rb.mo.orderId),
                                      "sell", rs.call, rs.mo.orderId)
              /\ cyclePc' = NextAfterReconcile(rb.mo, rs.mo)
    /\ UNCHANGED <<envVars, volVars, ghostVars, running, mainPc, exchangeServiceInstance, cycles,
                   skipped, caught, cleanupRan, ended, thrown, fatalSeen,
                   recoverableSeen, timeoutErrorClass>>

\* runCycle lines 140-151, 174-178, 235-239, 247-251: the fetches answered
\* and the cycle is skipped
FetchSkipped ==
    /\ cyclePc = "fetch"
    /\ \E p \in Plans[config][market] :
          /\ ~p.q.ok
          /\ aligned' = p.a
    /\ skipped' = TRUE
    /\ quote' = NoQuote
    /\ SkipCycle
    /\ UNCHANGED <<envVars, volVars, ghostVars, exchangeServiceInstance, cycles, caught, fatalSeen, recoverableSeen>>

\* runCycle lines 132-137 and 351-365: one of the four fetches failed
FetchFailed ==
    /\ cyclePc = "fetch"
    /\ \E kind \in ErrorKinds \ {"OrderNotFound", "NoChange"} :
          LET c == RunCycleCatch(kind)
          IN  /\ caught' = kind
              /\ NoteError(kind)
              /\ IF c.do = "throw"
                 THEN /\ ThrowToMain(c.kind)
                      /\ UNCHANGED <<currentOrderId, mo, calls, cancelled, orderLog, cleanupRan>>
                 ELSE IF c.do = "sleep"
                 THEN /\ cyclePc' = "catchSleep"
                      /\ UNCHANGED <<running, mainPc, ended, thrown, timeoutErrorClass,
                                     currentOrderId, mo, calls, cancelled, orderLog, cleanupRan>>
                 ELSE StartCleanup
    /\ UNCHANGED <<envVars, volVars, ghostVars, exchangeServiceInstance, cycles, planVars>>

\* runCycle lines 358 and 365: the 30 s sleep of the catch block is over
CatchSleepDone ==
    /\ cyclePc = "catchSleep"
    /\ StartCleanup
    /\ UNCHANGED <<envVars, volVars, ghostVars, exchangeServiceInstance, cycles, planVars, caught,
                   fatalSeen, recoverableSeen>>

\* cancelStaleOrdersIfNeeded lines 525-549: a cancel answered; the last one
\* ends the cycle
StaleCancelAnswered(side) ==
    /\ cyclePc = "cleanup"
    /\ mo[side].pc = "staleCancel"
    /\ \E answer \in Answers :
          /\ cancelOrder(answer) \in {"true", "false"}
          /\ NoteError(answer)
    /\ mo' = [mo EXCEPT ![side] = MoIdle]
    /\ IF \A s \in Sides : mo'[s].pc # "staleCancel"
       THEN ReturnToMain
       ELSE UNCHANGED endVars
    /\ UNCHANGED <<envVars, volVars, ghostVars, exchangeServiceInstance, currentOrderId, cycles,
                   calls, cancelled, orderLog, planVars, caught, cleanupRan>>

\* manageOrder: the edit answered
EditAnswered(side) ==
    /\ cyclePc = "reconcile"
    /\ mo[side].pc = "edit"
    /\ \E answer \in Answers :
          /\ SideStep(side, AfterEdit(mo[side], currentOrderId[side], answer))
          /\ NoteError(answer)
    /\ UNCHANGED <<envVars, volVars, ghostVars, running, mainPc, exchangeServiceInstance, cycles,
                   planVars, caught, cleanupRan, ended, thrown, timeoutErrorClass>>

\* manageOrder: a cancel answered
CancelAnswered(side) ==
    /\ cyclePc = "reconcile"
    /\ mo[side].pc \in {"cancel", "cancelFallback", "cancelUnsupported"}
    /\ \E answer \in Answers :
          /\ SideStep(side, AfterCancel(mo[side], currentOrderId[side],
                                        cancelOrder(answer), answer))
          /\ NoteError(answer)
    /\ UNCHANGED <<envVars, volVars, ghostVars, running, mainPc, exchangeServiceInstance, cycles,
                   planVars, caught, cleanupRan, ended, thrown, timeoutErrorClass>>

\* manageOrder: the create call answered
CreateAnswered(side) ==
    /\ cyclePc = "reconcile"
    /\ mo[side].pc = "create"
    /\ \E answer \in Answers \cup {"noId"} :
          /\ SideStep(side, AfterCreate(mo[side], NewOrderId(cycles, side), answer))
          /\ NoteError(answer)
    /\ UNCHANGED <<envVars, volVars, ghostVars, running, mainPc, exchangeServiceInstance, cycles,
                   planVars, caught, cleanupRan, ended, thrown, timeoutErrorClass>>

\* updateTradedVolume lines 89-120: fetchMyTrades answered with trades
TradesFetched ==
    /\ cyclePc = "volume"
    /\ \E trades \in SUBSET Trades :
          LET v == VolumeAfterTrades(totalTradedBaseVolume, lastTradeTimestamp, trades)
          IN  /\ totalTradedBaseVolume' = v.total
              /\ lastTradeTimestamp' = v.last
              /\ tradesAnswer' = "trades"
              /\ refetched' = (trades \cap counted # {})
              /\ counted' = counted \cup v.added
              /\ recounted' = (recounted \/ v.added \cap counted # {})
    /\ ReturnToMain
    /\ UNCHANGED <<envVars, exchangeServiceInstance, currentOrderId, mo, cycles, calls,
                   cancelled, orderLog, planVars, caught, cleanupRan, fatalSeen, recoverableSeen>>

\* updateTradedVolume lines 121-124: fetchMyTrades failed
TradesFailed ==
    /\ cyclePc = "volume"
    /\ \E kind \in ErrorKinds \ {"OrderNotFound", "NoChange"} :
          LET v == VolumeAfterFailure(totalTradedBaseVolume, lastTradeTimestamp, kind)
          IN  /\ totalTradedBaseVolume' = v.total
              /\ lastTradeTimestamp' = v.last
              /\ tradesAnswer' = "error"
              /\ NoteError(kind)
              /\ IF v.rethrown
                 THEN /\ caught' = kind
                      /\ ThrowToMain(RunCycleCatch(kind).kind)
                 ELSE /\ ReturnToMain
                      /\ caught' = caught
    /\ UNCHANGED <<envVars, exchangeServiceInstance, currentOrderId, mo, cycles, calls,
                   cancelled, orderLog, planVars, cleanupRan, refetched, counted, recounted>>

\* main.js lines 34, 37, 43 and 49: a sleep of the loop is over
SleepDone ==
    /\ mainPc \in {"backoff", "sleep"}
    /\ IF mainPc = "backoff"
       THEN /\ mainPc' = AfterCycle(running, FALSE)
            /\ UNCHANGED <<cycleVars, orderLog>>
       ELSE EnterLoop
    /\ UNCHANGED <<envVars, volVars, running, exchangeServiceInstance,
                   currentOrderId, timeoutErrorClass>>

\* main.js lines 59-68: cancelAllOrders answered, process.exit
FinalDone ==
    /\ mainPc = "final"
    /\ \E answer \in Answers :
          /\ cancelAllOrders(TRUE, answer) \in {"true", "false"}
          /\ orderLog' = [orderLog EXCEPT
                             !.cancelAll = Append(@, cancelAllOrders(TRUE, answer))]
    /\ mainPc' = "exited"
    /\ UNCHANGED <<envVars, volVars, cycleVars, running, exchangeServiceInstance,
                   currentOrderId, timeoutErrorClass>>

Next ==
    \/ CreateService
    \/ InitializeDone
    \/ handleShutdown
    \/ FetchQuoted
    \/ FetchSkipped
    \/ FetchFailed
    \/ CatchSleepDone
    \/ \E side \in Sides : StaleCancelAnswered(side)
    \/ \E side \in Sides : EditAnswered(side)
    \/ \E side \in Sides : CancelAnswered(side)
    \/ \E side \in Sides : CreateAnswered(side)
    \/ TradesFetched
    \/ TradesFailed
    \/ SleepDone
    \/ FinalDone

Spec == Init /\ [][Next]_vars

\* Every awaited call is answered and every sleep ends: a turn that can run
\* does run (signals may or may not come)
Turn ==
    \/ CreateService
    \/ InitializeDone
    \/ FetchQuoted
    \/ FetchSkipped
    \/ FetchFailed
    \/ CatchSleepDone
    \/ \E side \in Sides : StaleCancelAnswered(side)
    \/ \E side \in Sides : EditAnswered(side)
    \/ \E side \in Sides : CancelAnswered(side)
    \/ \E side \in Sides : CreateAnswered(side)
    \/ TradesFetched
    \/ TradesFailed
    \/ SleepDone
    \/ FinalDone

FairSpec == Init /\ [][Next]_vars /\ WF_vars(Turn)

\* ------------------------------------------------------------------------
\* One call of manageOrder taken alone: the call of runCycle lines 337-340
\* for one side, in a cycle after the first, with every target and every
\* answer of the venue; the same turns as in Spec, the answers kept
\* ------------------------------------------------------------------------
Requests ==
    [side : Sides, shouldPlace : BOOLEAN, amount : {Num(a) : a \in 0..MaxAmount},
     price : {Num(10)}]

\* what a call of manageOrder leaves alone
reconcileFrame ==
    <<config, market, timeoutErrorClass, running, mainPc, exchangeServiceInstance,
      totalTradedBaseVolume, lastTradeTimestamp, cycles, quote, aligned, skipped, caught,
      cleanupRan, ended, thrown, fatalSeen, recoverableSeen, tradesAnswer, refetched,
      counted, recounted, request, sideAnswers, venue, fnCall, fnResult>>

\* the side is untracked or tracks the order placed in the cycle before
ReconcileInit ==
    /\ config = CfgNormal
    /\ market \in Markets
    /\ timeoutErrorClass = "unknown"
    /\ running = TRUE
    /\ mainPc = "cycle"
    /\ exchangeServiceInstance = TRUE
    /\ cyclePc = "reconcile"
    /\ cycles = MaxCycles
    /\ request \in Requests
    /\ \E tracked \in {Null, NewOrderId(MaxCycles - 1, request.side)} :
          currentOrderId = [s \in Sides |-> IF s = request.side THEN tracked ELSE Null]
    /\ mo = [s \in Sides |-> MoIdle]
    /\ totalTradedBaseVolume = 0
    /\ lastTradeTimestamp = NoTimestamp
    /\ calls = [s \in Sides |-> NoCalls]
    /\ cancelled = {}
    /\ orderLog = [NoLog EXCEPT !.placed =
                      {[side |-> s, id |-> currentOrderId[s]] : s \in StaleSides}]
    /\ quote = NoQuote
    /\ aligned = NoPrices
    /\ skipped = FALSE
    /\ caught = "none"
    /\ cleanupRan = FALSE
    /\ ended = "no"
    /\ thrown = "none"
    /\ fatalSeen = FALSE
    /\ recoverableSeen = FALSE
    /\ tradesAnswer = "none"
    /\ refetched = FALSE
    /\ counted = {}
    /\ recounted = FALSE
    /\ answers = NoAnswers
    /\ sideAnswers = [s \in Sides |-> NoAnswers]
    /\ venue = NoVenue
    /\ fnCall = NoCall
    /\ fnResult = NoResult

\* manageOrder lines 378-431, 459-462, 474-511: the call, up to its first await
ManageOrderCalled ==
    /\ mo[request.side].pc = "idle"
    /\ SideStep(request.side,
                manageOrderStart(request.shouldPlace, request.amount, request.price,
                                 currentOrderId[request.side]))
    /\ UNCHANGED <<reconcileFrame, answers>>

\* lines 414-458: the edit answered
EditReplied ==
    /\ mo[request.side].pc = "edit"
    /\ \E answer \in Answers :
          /\ SideStep(request.side,
                      AfterEdit(mo[request.side], currentOrderId[request.side], answer))
          /\ answers' = [answers EXCEPT !.edit = answer]
    /\ UNCHANGED reconcileFrame

\* lines 426-428, 449-456, 462-472: the cancel answered
CancelReplied ==
    /\ mo[request.side].pc \in {"cancel", "cancelFallback", "cancelUnsupported"}
    /\ \E answer \in Answers :
          /\ SideStep(request.side,
                      AfterCancel(mo[request.side], currentOrderId[request.side],
                                  cancelOrder(answer), answer))
          /\ answers' = [answers EXCEPT !.cancel = answer]
    /\ UNCHANGED reconcileFrame

\* lines 483-500: the create call answered
CreateReplied ==
    /\ mo[request.side].pc = "create"
    /\ \E answer \in Answers \cup {"noId"} :
          /\ SideStep(request.side,
                      AfterCreate(mo[request.side], NewOrderId(cycles, request.side),
                                  answer))
          /\ answers' = [answers EXCEPT !.create = answer]
    /\ UNCHANGED reconcileFrame

ReconcileNext ==
    \/ ManageOrderCalled
    \/ EditReplied
    \/ CancelReplied
    \/ CreateReplied

ReconcileSpec == ReconcileInit /\ [][ReconcileNext]_vars

\* ------------------------------------------------------------------------
\* One cycle taken alone: runCycle from the answer of its fetches to its
\* end, in a cycle after the first, each side untracked or tracking the
\* order of the cycle before; the same turns as in Spec, the answers to the
\* calls of manageOrder kept per side
\* ------------------------------------------------------------------------
CycleInit ==
    /\ config \in Configs
    /\ market \in Markets
    /\ timeoutErrorClass = "unknown"
    /\ running = TRUE
    /\ mainPc = "cycle"
    /\ exchangeServiceInstance = TRUE
    /\ cyclePc = "fetch"
    /\ cycles = MaxCycles
    /\ currentOrderId \in
          {[s \in Sides |-> IF s \in T THEN NewOrderId(MaxCycles - 1, s) ELSE Null] :
              T \in SUBSET Sides}
    /\ mo = [s \in Sides |-> MoIdle]
    /\ totalTradedBaseVolume = 0
    /\ lastTradeTimestamp = NoTimestamp
    /\ calls = [s \in Sides |-> NoCalls]
    /\ cancelled = {}
    /\ orderLog = [NoLog EXCEPT !.placed =
                      {[side |-> s, id |-> currentOrderId[s]] : s \in StaleSides}]
    /\ quote = NoQuote
    /\ aligned = NoPrices
    /\ skipped = FALSE
    /\ caught = "none"
    /\ cleanupRan = FALSE
    /\ ended = "no"
    /\ thrown = "none"
    /\ fatalSeen = FALSE
    /\ recoverableSeen = FALSE
    /\ tradesAnswer = "none"
    /\ refetched = FALSE
    /\ counted = {}
    /\ recounted = FALSE
    /\ request = NoRequest
    /\ answers = NoAnswers
    /\ sideAnswers = [s \in Sides |-> NoAnswers]
    /\ venue = NoVenue
    /\ fnCall = NoCall
    /\ fnResult = NoResult

\* one answer of each kind manageOrder tells apart: success, the two errors
\* it names, and any other error
SideAnswers == {"ok", "OrderNotFound", "NoChange", "ExchangeError"}

\* what a turn of manageOrder leaves alone
sideFrame ==
    <<config, market, request, answers, venue, fnCall, fnResult, volVars, ghostVars,
      running, mainPc, exchangeServiceInstance, cycles, planVars, caught, cleanupRan,
      ended, thrown, timeoutErrorClass>>

\* manageOrder lines 414-458: the edit of `side` answered
EditRecorded(side) ==
    /\ cyclePc = "reconcile"
    /\ mo[side].pc = "edit"
    /\ \E answer \in SideAnswers :
          /\ SideStep(side, AfterEdit(mo[side], currentOrderId[side], answer))
          /\ sideAnswers' = [sideAnswers EXCEPT ![side].edit = answer]
          /\ NoteError(answer)
    /\ UNCHANGED sideFrame

\* manageOrder lines 426-428, 449-456, 462-472: the cancel of `side` answered
CancelRecorded(side) ==
    /\ cyclePc = "reconcile"
    /\ mo[side].pc \in {"cancel", "cancelFallback", "cancelUnsupported"}
    /\ \E answer \in SideAnswers :
          /\ SideStep(side, AfterCancel(mo[side], currentOrderId[side],
                                        cancelOrder(answer), answer))
          /\ sideAnswers' = [sideAnswers EXCEPT ![side].cancel = answer]
          /\ NoteError(answer)
    /\ UNCHANGED sideFrame

\* manageOrder lines 483-500: the placement of `side` answered
CreateRecorded(side) ==
    /\ cyclePc = "reconcile"
    /\ mo[side].pc = "create"
    /\ \E answer \in SideAnswers \cup {"noId"} :
          /\ SideStep(side, AfterCreate(mo[side], NewOrderId(cycles, side), answer))
          /\ sideAnswers' = [sideAnswers EXCEPT ![side].create = answer]
          /\ NoteError(answer)
    /\ UNCHANGED sideFrame

CycleNext ==
    \/ FetchQuoted
    \/ FetchSkipped
    \/ FetchFailed
    \/ CatchSleepDone
    \/ \E side \in Sides : StaleCancelAnswered(side)
    \/ \E side \in Sides : EditRecorded(side)
    \/ \E side \in Sides : CancelRecorded(side)
    \/ \E side \in Sides : CreateRecorded(side)
    \/ TradesFetched
    \/ TradesFailed

CycleSpec == CycleInit /\ [][CycleNext]_vars

\* ------------------------------------------------------------------------
\* updateTradedVolume taken alone, with the trades of the account at the
\* venue: a trade may appear at any time with any timestamp, and
\* fetchMyTrades(symbol, since) answers with the trades at or after `since`
\* (all of them while `since` is undefined)
\* ------------------------------------------------------------------------
LedgerTrades ==
    {[timestamp |-> t, amount |-> TradeAmount(t)] : t \in 1..(MaxTs + 2)}

\* what the volume update leaves alone
volumeFrame ==
    <<config, market, timeoutErrorClass, running, mainPc, exchangeServiceInstance,
      cyclePc, currentOrderId, mo, cycles, calls, cancelled, orderLog, quote, aligned, skipped,
      caught, cleanupRan, ended, thrown, fatalSeen, recoverableSeen, request, answers,
      sideAnswers, fnCall, fnResult>>

VolumeInit ==
    /\ config = CfgNormal
    /\ market = [tickSize |-> One, stepSize |-> One, minAmount |-> One,
                 editOrder |-> TRUE]
    /\ timeoutErrorClass = "unknown"
    /\ running = TRUE
    /\ mainPc = "cycle"
    /\ exchangeServiceInstance = TRUE
    /\ cyclePc = "volume"
    /\ currentOrderId = [s \in Sides |-> Null]
    /\ mo = [s \in Sides |-> MoIdle]
    /\ totalTradedBaseVolume = 0
    /\ lastTradeTimestamp = NoTimestamp
    /\ cycles = 1
    /\ calls = [s \in Sides |-> NoCalls]
    /\ cancelled = {}
    /\ orderLog = NoLog
    /\ quote = NoQuote
    /\ aligned = NoPrices
    /\ skipped = FALSE
    /\ caught = "none"
    /\ cleanupRan = FALSE
    /\ ended = "no"
    /\ thrown = "none"
    /\ fatalSeen = FALSE
    /\ recoverableSeen = FALSE
    /\ tradesAnswer = "none"
    /\ refetched = FALSE
    /\ counted = {}
    /\ recounted = FALSE
    /\ request = NoRequest
    /\ answers = NoAnswers
    /\ sideAnswers = [s \in Sides |-> NoAnswers]
    /\ venue = NoVenue
    /\ fnCall = NoCall
    /\ fnResult = NoResult

\* a trade of the account becomes visible at the venue
TradeExecuted ==
    /\ \E t \in LedgerTrades \ venue.trades :
          venue' = [venue EXCEPT !.trades = @ \cup {t}]
    /\ tradesAnswer' = "none"
    /\ UNCHANGED <<volumeFrame, volVars, refetched>>

\* updateTradedVolume lines 88-120: the fetch answered
VolumeUpdated ==
    LET trades == {t \in venue.trades : t.timestamp >= OrZero(lastTradeTimestamp)}
        v == VolumeAfterTrades(totalTradedBaseVolume, lastTradeTimestamp, trades)
    IN  /\ totalTradedBaseVolume' = v.total
        /\ lastTradeTimestamp' = v.last
        /\ tradesAnswer' = "trades"
        /\ refetched' = (trades \cap counted # {})
        /\ counted' = counted \cup v.added
        /\ recounted' = (recounted \/ v.added \cap counted # {})
        /\ venue' = [venue EXCEPT !.returned = MaxTimestamp(trades, @)]
        /\ UNCHANGED volumeFrame

\* updateTradedVolume lines 121-124: the fetch failed
VolumeFailed ==
    /\ \E kind \in ErrorKinds \ {"OrderNotFound", "NoChange"} :
          LET v == VolumeAfterFailure(totalTradedBaseVolume, lastTradeTimestamp, kind)
          IN  /\ totalTradedBaseVolume' = v.total
              /\ lastTradeTimestamp' = v.last
    /\ tradesAnswer' = "error"
    /\ UNCHANGED <<volumeFrame, venue, refetched, counted, recounted>>

VolumeNext == TradeExecuted \/ VolumeUpdated \/ VolumeFailed

VolumeSpec == VolumeInit /\ [][VolumeNext]_vars

\* ------------------------------------------------------------------------
\* Properties
\* ------------------------------------------------------------------------
\* a side whose manageOrder call of this cycle has started
Started(s) == mo[s].pc \notin {"idle", "staleCancel"}

\* the amount and the flag the plan of this cycle has for a side
PlannedAmount(s) == IF s = "buy" THEN quote.buyAmount ELSE quote.sellAmount
PlannedFlag(s) == IF s = "buy" THEN quote.placeBuy ELSE quote.placeSell

\* C1: one call of manageOrder issues at most one placement call for its
\* side, whatever the starting state and whatever the edit, the cancel and
\* the placement answer (calls counts the calls of the current cycle, in
\* which manageOrder runs once per side).
C1_AtMostOnePlacement ==
    \A s \in Sides : calls[s].create <= 1

\* a failed edit fell through to cancel and create in the same call
C1_FallbackPlaced ==
    \E s \in Sides : calls[s] = [create |-> 1, edit |-> 1, cancel |-> 1]

\* C2: when a side is tracked at the start of the call and the planned amount
\* is below minAmount, a cancel is issued for the tracked id, no edit and no
\* placement is issued, and the side is untracked when the call has returned,
\* whatever the cancel answered and whatever the planned flag.
C2_BelowMinimumCancels ==
    \A s \in Sides :
        (Started(s) /\ mo[s].orderId # Null /\ RLt(PlannedAmount(s), market.minAmount))
        => /\ calls[s] = [create |-> 0, edit |-> 0, cancel |-> 1]
           /\ mo[s].orderId \in cancelled
           /\ (mo[s].pc = "done" => currentOrderId[s] = Null)

\* a tracked side whose plan said place, with an amount below the minimum,
\* has been cancelled and the call has returned
C2_FlaggedButTooSmall ==
    \E s \in Sides :
        /\ mo[s].pc = "done"
        /\ mo[s].orderId # Null
        /\ PlannedFlag(s)
        /\ RLt(PlannedAmount(s), market.minAmount)
        /\ currentOrderId[s] = Null

\* C3: a volume update adds no trade whose timestamp is at or below the
\* watermark in force before the update, and no trade is ever added twice,
\* even when the venue returns it again.
C3_NoTradeAtOrBelowWatermark ==
    [][/\ \A t \in counted' \ counted : t.timestamp > OrZero(lastTradeTimestamp)
       /\ ~recounted']_vars

\* the venue returned an already counted trade again and the update finished
C3_ReturnedAgain ==
    /\ refetched
    /\ tradesAnswer = "trades"
    /\ counted # {}
    /\ lastTradeTimestamp # NoTimestamp

\* C4: totalTradedBaseVolume never decreases, and an update whose fetch fails
\* leaves the total and the watermark as they were, lets runCycle return
\* normally and leaves the driver running.
C4_VolumeMonotoneFailureNeutral ==
    [][/\ totalTradedBaseVolume' >= totalTradedBaseVolume
       /\ (cyclePc = "volume" /\ tradesAnswer' = "error")
          => /\ totalTradedBaseVolume' = totalTradedBaseVolume
             /\ lastTradeTimestamp' = lastTradeTimestamp
             /\ ended' = "returned"
             /\ thrown' = "none"
             /\ running' = running
             /\ mainPc' = (IF running THEN "sleep" ELSE "final")]_vars

\* a fetch failed in the cycle after one that had counted trades
C4_FailedAfterCounting ==
    /\ tradesAnswer = "error"
    /\ totalTradedBaseVolume > 0
    /\ lastTradeTimestamp # NoTimestamp
    /\ running
    /\ mainPc = "sleep"

\* C5: with tickSize > 0 the buy price handed to manageOrder is strictly
\* below the sell price; when the aligned prices cross, the buy price is the
\* aligned one lowered by a tick and the sell price is raised by a tick only
\* if that was not enough; when both steps are not enough the cycle issues no
\* placement and no edit.
C5_QuotesNotCrossed ==
    RLt(Zero, market.tickSize) =>
        LET lowered == RSub(aligned.buy, market.tickSize)
            raised == RAdd(aligned.sell, market.tickSize)
        IN  /\ (\A s \in Sides : Started(s))
               => /\ RLt(mo["buy"].targetPrice, mo["sell"].targetPrice)
                  /\ mo["buy"].targetPrice = quote.buyPrice
                  /\ mo["sell"].targetPrice = quote.sellPrice
            /\ (quote.ok /\ RLe(aligned.sell, aligned.buy))
               => /\ quote.buyPrice = lowered
                  /\ quote.sellPrice = (IF RLt(lowered, aligned.sell) THEN aligned.sell
                                        ELSE raised)
            /\ (quote.ok /\ RLt(aligned.buy, aligned.sell))
               => (quote.buyPrice = aligned.buy /\ quote.sellPrice = aligned.sell)
            /\ (skipped /\ RLe(raised, lowered))
               => \A s \in Sides : calls[s].create = 0 /\ calls[s].edit = 0

\* the aligned prices crossed, lowering the buy price was not enough and the
\* sell price was raised; both calls of manageOrder have started
C5_SellRaised ==
    /\ \A s \in Sides : Started(s)
    /\ RLe(aligned.sell, aligned.buy)
    /\ quote.sellPrice = RAdd(aligned.sell, market.tickSize)
    /\ quote.buyPrice = RSub(aligned.buy, market.tickSize)

\* C6: a cycle that hits a validation failure issues no placement and no
\* edit, issues a cancel for every id tracked at that moment, and leaves
\* both sides untracked.
C6_SkippedCycleCleansUp ==
    [][skipped'
       => /\ \A s \in Sides : /\ calls'[s].create = 0
                              /\ calls'[s].edit = 0
                              /\ currentOrderId'[s] = Null
          /\ ~skipped => \A s \in Sides :
                            currentOrderId[s] # Null
                            => (currentOrderId[s] \in cancelled' /\ calls'[s].cancel = 1)]_vars

\* a skipped cycle that found both sides tracked has ended
C6_SkippedWithTrackedOrders ==
    /\ skipped
    /\ cyclePc = "idle"
    /\ ended = "returned"
    /\ \A s \in Sides : calls[s].cancel = 1
    /\ \A s \in Sides : currentOrderId[s] = Null

\* C7: whenever a gateway call of a cycle fails with a Fatal error, runCycle
\* ends by throwing that error and no further cycle is started.
C7_FatalStopsWorker ==
    [][/\ (fatalSeen' /\ cyclePc' = "idle")
          => (ended' = "threw" /\ thrown' = "AuthenticationError")
       /\ fatalSeen => cycles' = cycles]_vars

\* C8: when the catch block of runCycle received an error that is not Fatal,
\* the cleanup has run when the cycle ends, both sides are untracked and the
\* driver goes on to the next cycle.
C8_AbortCleansUp ==
    (cyclePc = "idle" /\ caught # "none" /\ ~Fatal(caught))
    => /\ cleanupRan
       /\ \A s \in Sides : currentOrderId[s] = Null
       /\ running => mainPc \in {"sleep", "backoff"}

\* C9: a cycle in which a gateway call failed with a recoverable error, and
\* none with a Fatal one, ends with runCycle returning normally.
C9_RecoverableHandled ==
    (cyclePc = "idle" /\ recoverableSeen /\ ~fatalSeen)
    => (ended = "returned" /\ thrown = "none")

\* C10: while the two manageOrder calls run, a step of one side changes
\* neither the record, the tracked id nor the calls of the other side; the
\* cycle leaves the reconciliation only for the volume update, and only when
\* both calls have returned; a placement one side's plan asks for is issued
\* whatever the other side met.
C10_SidesIndependent ==
    [][/\ cyclePc = "reconcile"
          => /\ cyclePc' \in {"reconcile", "volume"}
             /\ \A s \in Sides :
                   mo'[s] # mo[s]
                   => \A o \in Sides \ {s} : /\ mo'[o] = mo[o]
                                             /\ currentOrderId'[o] = currentOrderId[o]
                                             /\ calls'[o] = calls[o]
       /\ cyclePc' = "volume"
          => \A s \in Sides :
                /\ mo'[s].pc = "done"
                /\ (mo'[s].orderId = Null /\ mo'[s].shouldPlace
                    /\ RLe(market.minAmount, mo'[s].targetAmount))
                   => calls'[s].create = 1]_vars

\* the buy placement failed, the sell placement succeeded and the cycle is at
\* the volume update
C10_OneSideFailed ==
    /\ cyclePc = "volume"
    /\ recoverableSeen
    /\ calls["buy"].create = 1
    /\ currentOrderId["buy"] = Null
    /\ calls["sell"].create = 1
    /\ currentOrderId["sell"] # Null

\* C11: cycles are serialized: main stands inside runCycle exactly while a
\* cycle is active, and a cycle starts only when the one before has ended
\* (returned or thrown, its cleanup included) with none of its gateway calls
\* pending; the cycles are numbered one by one.
C11_CyclesSerialized ==
    [][/\ (cyclePc' # "idle") <=> (mainPc' = "cycle")
       /\ cycles' # cycles
          => /\ cycles' = cycles + 1
             /\ cyclePc = "idle"
             /\ (cycles > 0 => ended \in {"returned", "threw"})
             /\ \A s \in Sides : mo[s].pc \in {"idle", "done"}]_vars

\* a later cycle is in its error-path cleanup
C11_LaterCycleCleaning ==
    /\ cycles > 1
    /\ cyclePc = "cleanup"
    /\ mainPc = "cycle"

\* ------------------------------------------------------------------------
\* The pure functions taken alone: one call of adjustPriceToTickSize (and
\* its result aligned once more), of calculateDepthMidPrice, or of the quote
\* plan of runCycle, on inputs drawn from the sets below
\* ------------------------------------------------------------------------
Ticks == {Q(1, 4), Q(1, 2), One, Q(3, 2)}

AlignCalls ==
    [fn : {"align"}, price : {Q(n, 4) : n \in 0..MaxQuarters}, tickSize : Ticks]

\* the steps of a market: undefined, negative, zero and positive ones
Steps == {Undef, Q(-1, 2), Zero, Q(1, 4), Q(1, 2), One, Q(3, 2)}

StepCalls ==
    [fn : {"step"}, amount : {Q(n, 4) : n \in (-MaxQuarters)..MaxQuarters},
     stepSize : Steps]

FinePositions == {Q(-9, 4), Zero, Q(3, 4), Q(5, 4), Q(9, 4)}

\* configurations of the skew: on, off (no intensity, or no limit, which
\* config.js turns into no intensity), a spread fixed at 10 with a limit of 1,
\* and the inverted spread
CfgSkewOff == [CfgNormal EXCEPT !.inventorySkewIntensity = Zero]
CfgNoLimit == [CfgNormal EXCEPT !.inventorySkewIntensity = Zero, !.positionLimit = Zero]
CfgSpreadTen ==
    [CfgNormal EXCEPT !.positionLimit = One, !.minSpread = Num(10), !.maxSpread = Num(10)]
SkewConfigs == {CfgNormal, CfgSkewOff, CfgNoLimit, CfgSpreadTen, CfgInverted}

SkewCalls ==
    [fn : {"skew"}, depthMidPrice : {Num(10), Q(23, 2), Num(50)},
     position : Positions \cup FinePositions \cup {Num(5)}]

\* volumes of a level; a level of volume 0 is skipped by calculateVwap
Sizes == {0, 1, 3}

\* the sides of n levels whose prices start at `best` and move by `gap`
SidesOfLength(n, best, gap) ==
    {[i \in 1..n |-> Lv(best + gap * (i - 1), v[i])] : v \in [1..n -> Sizes]}

\* bids descending from 10, asks ascending from 11
DepthBids == UNION {SidesOfLength(n, 10, -3) : n \in 1..MaxLevels}
DepthAsks == UNION {SidesOfLength(n, 11, 3) : n \in 1..MaxLevels}
DepthBooks == {Book(b, a) : b \in DepthBids, a \in DepthAsks}

MidCalls == [fn : {"mid"}, orderBook : DepthBooks, levels : 0..(MaxLevels + 1)]

\* bids [[100,5],[99.9,5]], asks [[100.1,5],[100.2,5]]
ExampleBook ==
    Book(<<<<Num(100), Num(5)>>, <<Q(999, 10), Num(5)>>>>,
         <<<<Q(1001, 10), Num(5)>>, <<Q(1002, 10), Num(5)>>>>)

\* calls of calculateDepthMidPrice with any book: a side empty, the book
\* missing, a best price that is no number, levels without volume
BookCalls ==
    [fn : {"book"}, orderBook : Books \cup DepthBooks \cup {ExampleBook},
     levels : 0..(MaxLevels + 1)]

\* markets with ticks and steps of a half and of one
FineMarkets ==
    {[tickSize |-> t, stepSize |-> st, minAmount |-> One, editOrder |-> TRUE] :
        t \in {Q(1, 2), One}, st \in {Q(1, 2), One}}

PlanCalls ==
    [fn : {"plan"},
     snap : {[orderBook |-> b, balance |-> bal, position |-> pos] :
                b \in Books, bal \in Balances, pos \in FinePositions}]

\* sides of up to MaxLevels entries for calculateVwap: a price or a size
\* may be missing (not a number), negative or zero
VwapSides ==
    UNION {[1..n -> {Undef, Num(-1), Zero, Num(10), Num(12)}
                    \X {Undef, Num(-1), Zero, One, Num(3)}] : n \in 0..MaxLevels}
VwapCalls == [fn : {"vwap"}, orders : VwapSides, levels : 0..(MaxLevels + 1)]

\* calls of getVolumeNearPriceTicks: the tick size may be missing, negative
\* or zero, the range in ticks negative or zero
VolumeCalls ==
    [fn : {"volume"}, orders : VwapSides, targetPrice : {Num(10), Num(11)},
     rangeTicks : {Num(-1), Zero, One, Num(2)},
     tickSize : {Undef, Q(-1, 2), Zero, Q(1, 2), One}]

\* the snapshots of the plans, for the amounts before the gates
LiquidityCalls == {[fn |-> "liquidity", snap |-> c.snap] : c \in PlanCalls}

\* nothing of the driver or of a cycle is running
FnInit ==
    /\ \/ /\ fnCall \in AlignCalls
          /\ config = CfgNormal
          /\ market = [tickSize |-> fnCall.tickSize, stepSize |-> One,
                       minAmount |-> One, editOrder |-> TRUE]
       \/ /\ fnCall \in StepCalls
          /\ config = CfgNormal
          /\ market = [tickSize |-> One, stepSize |-> fnCall.stepSize,
                       minAmount |-> One, editOrder |-> TRUE]
       \/ /\ fnCall \in SkewCalls
          /\ config \in SkewConfigs
          /\ market = [tickSize |-> One, stepSize |-> One, minAmount |-> One,
                       editOrder |-> TRUE]
       \/ /\ fnCall \in MidCalls \cup BookCalls
          /\ config = [CfgNormal EXCEPT !.orderBookDepthLevels = fnCall.levels]
          /\ market = [tickSize |-> One, stepSize |-> One, minAmount |-> One,
                       editOrder |-> TRUE]
       \/ /\ fnCall \in PlanCalls
          /\ config \in Configs
          /\ market \in FineMarkets
       \/ /\ fnCall \in LiquidityCalls
          /\ config \in SkewConfigs
          /\ market \in FineMarkets
       \/ /\ fnCall \in VolumeCalls
          /\ config = [CfgNormal EXCEPT !.rangeTicksForLiquidity = fnCall.rangeTicks]
          /\ market = [tickSize |-> fnCall.tickSize, stepSize |-> One,
                       minAmount |-> One, editOrder |-> TRUE]
       \/ /\ fnCall \in VwapCalls
          /\ config = [CfgNormal EXCEPT !.orderBookDepthLevels = fnCall.levels]
          /\ market = [tickSize |-> One, stepSize |-> One, minAmount |-> One,
                       editOrder |-> TRUE]
    /\ fnResult = NoResult
    /\ timeoutErrorClass = "unknown"
    /\ running = TRUE
    /\ mainPc = "start"
    /\ exchangeServiceInstance = FALSE
    /\ cyclePc = "idle"
    /\ currentOrderId = [s \in Sides |-> Null]
    /\ mo = [s \in Sides |-> MoIdle]
    /\ totalTradedBaseVolume = 0
    /\ lastTradeTimestamp = NoTimestamp
    /\ cycles = 0
    /\ calls = [s \in Sides |-> NoCalls]
    /\ cancelled = {}
    /\ orderLog = NoLog
    /\ quote = NoQuote
    /\ aligned = NoPrices
    /\ skipped = FALSE
    /\ caught = "none"
    /\ cleanupRan = FALSE
    /\ ended = "no"
    /\ thrown = "none"
    /\ fatalSeen = FALSE
    /\ recoverableSeen = FALSE
    /\ tradesAnswer = "none"
    /\ refetched = FALSE
    /\ counted = {}
    /\ recounted = FALSE
    /\ request = NoRequest
    /\ answers = NoAnswers
    /\ sideAnswers = [s \in Sides |-> NoAnswers]
    /\ venue = NoVenue

\* what a call of a pure function leaves alone: everything but its result
fnFrame ==
    <<config, market, timeoutErrorClass, running, mainPc, exchangeServiceInstance,
      cyclePc, currentOrderId, mo, totalTradedBaseVolume, lastTradeTimestamp, cycles,
      calls, cancelled, orderLog, quote, aligned, skipped, caught, cleanupRan, ended, thrown,
      fatalSeen, recoverableSeen, tradesAnswer, refetched, counted, recounted, request,
      answers, sideAnswers, venue, fnCall>>

\* utils.js lines 42-47: the price is aligned, and the result aligned again
ApplyAlign ==
    /\ fnCall.fn = "align"
    /\ fnResult.times < 2
    /\ fnResult' =
          [times |-> fnResult.times + 1,
           value |-> adjustPriceToTickSize(IF fnResult.times = 0 THEN fnCall.price
                                           ELSE fnResult.value,
                                           market.tickSize),
           previous |-> fnResult.value]
    /\ UNCHANGED fnFrame

\* utils.js lines 55-60
ApplyStep ==
    /\ fnCall.fn = "step"
    /\ fnResult.times = 0
    /\ fnResult' = [times |-> 1,
                    value |-> adjustAmountToStepSize(fnCall.amount, market.stepSize),
                    previous |-> Undef]
    /\ UNCHANGED fnFrame

\* runCycle lines 181-218: the target prices before tick alignment
ApplySkew ==
    /\ fnCall.fn = "skew"
    /\ fnResult.times = 0
    /\ fnResult' = [times |-> 1,
                    value |-> SkewedPrices(config, fnCall.depthMidPrice, fnCall.position),
                    previous |-> Undef]
    /\ UNCHANGED fnFrame

\* orderbook.js lines 45-65, called as in runCycle line 173
ApplyDepthMid ==
    /\ fnCall.fn \in {"mid", "book"}
    /\ fnResult.times = 0
    /\ fnResult' =
          [times |-> 1,
           value |-> calculateDepthMidPrice(fnCall.orderBook, config.orderBookDepthLevels),
           previous |-> Undef]
    /\ UNCHANGED fnFrame

\* runCycle lines 139-333: the plan handed to the two manageOrder calls
ApplyPlan ==
    /\ fnCall.fn = "plan"
    /\ fnResult.times = 0
    /\ fnResult' = [times |-> 1, value |-> PlanQuotes(config, market, fnCall.snap),
                    previous |-> Undef]
    /\ UNCHANGED fnFrame

\* runCycle lines 139-259: the prices and amounts before the gates
ApplyLiquidity ==
    /\ fnCall.fn = "liquidity"
    /\ fnResult.times = 0
    /\ fnResult' = [times |-> 1,
                    value |-> QuotesBeforeGates(config, market, fnCall.snap),
                    previous |-> Undef]
    /\ UNCHANGED fnFrame

\* orderbook.js lines 16-37, called as in calculateDepthMidPrice lines 47-48
ApplyVwap ==
    /\ fnCall.fn = "vwap"
    /\ fnResult.times = 0
    /\ fnResult' = [times |-> 1,
                    value |-> calculateVwap(fnCall.orders, config.orderBookDepthLevels),
                    previous |-> Undef]
    /\ UNCHANGED fnFrame

\* orderbook.js lines 74-107, called as in runCycle lines 251-252
ApplyVolume ==
    /\ fnCall.fn = "volume"
    /\ fnResult.times = 0
    /\ fnResult' = [times |-> 1,
                    value |-> getVolumeNearPriceTicks(fnCall.orders, fnCall.targetPrice,
                                                      config.rangeTicksForLiquidity,
                                                      market.tickSize),
                    previous |-> Undef]
    /\ UNCHANGED fnFrame

FnNext ==
    \/ ApplyAlign
    \/ ApplyStep
    \/ ApplySkew
    \/ ApplyDepthMid
    \/ ApplyPlan
    \/ ApplyLiquidity
    \/ ApplyVwap
    \/ ApplyVolume

FnSpec == FnInit /\ [][FnNext]_vars

\* ------------------------------------------------------------------------
\* One call of manageOrder (ReconcileSpec)
\* ------------------------------------------------------------------------
\* the activation of the requested side, the id it found tracked, the target
Act == mo[request.side]
Called == Act.pc # "idle"
Returned == Act.pc = "done"
WasResting == Called /\ Act.orderId # Null
WasUntracked == Called /\ Act.orderId = Null
Placeable == request.shouldPlace /\ RLe(market.minAmount, request.amount)
TrackedNow == currentOrderId[request.side]
Issued == calls[request.side]
NewId == NewOrderId(cycles, request.side)

\* the placement has been issued once and the side tracks what it returned
PlacedOnce ==
    /\ Issued.create = 1
    /\ Act.pc \in {"create", "done"}
    /\ Act.pc = "create" => TrackedNow = Null /\ answers.create = "none"
    /\ Act.pc = "done"
       => /\ answers.create # "none"
          /\ TrackedNow = IF answers.create = "ok" THEN NewId ELSE Null

\* C12: a resting side with a placeable target whose edit succeeded or was
\* answered "nothing to change": the call has returned, the side tracks the
\* same id, and the edit is the only call issued for the side.
C12_EditKeepsOrder ==
    (WasResting /\ Placeable /\ answers.edit \in {"ok", "NoChange"})
    => /\ Returned
       /\ TrackedNow = Act.orderId
       /\ Issued = [NoCalls EXCEPT !.edit = 1]
       /\ cancelled = {}

C12_NothingToChange ==
    /\ WasResting
    /\ Placeable
    /\ answers.edit = "NoChange"
    /\ Returned

\* C13: a resting side with a placeable target whose edit failed with "order
\* not found": no cancel is issued, the side is untracked while the one
\* placement is pending, and it ends tracking the new id when the placement
\* succeeded and untracked when it failed.
C13_NotFoundReplaces ==
    (WasResting /\ Placeable /\ answers.edit = "OrderNotFound")
    => /\ Issued.cancel = 0
       /\ cancelled = {}
       /\ Issued.edit = 1
       /\ PlacedOnce

C13_ReplacedAfterNotFound ==
    /\ WasResting
    /\ answers.edit = "OrderNotFound"
    /\ Returned
    /\ TrackedNow = NewId

\* the edit failed with an error that is neither "not found" nor "nothing to
\* change", or the venue has no edit
EditGaveUp ==
    \/ answers.edit \in ErrorKinds \ {"OrderNotFound", "NoChange"}
    \/ ~market.editOrder

\* C14: a resting side with a placeable target whose edit failed with another
\* error, or on a venue without edit: exactly one cancel, of the tracked id,
\* is issued; whatever it is answered (not found included) the side is
\* untracked and exactly one placement follows in the same call.
C14_FallbackCancelsThenPlaces ==
    (WasResting /\ Placeable /\ EditGaveUp)
    => /\ Issued.cancel = 1
       /\ cancelled = {Act.orderId}
       /\ Issued.edit = (IF market.editOrder THEN 1 ELSE 0)
       /\ answers.cancel = "none"
          => /\ Act.pc \in {"cancelFallback", "cancelUnsupported"}
             /\ Issued.create = 0
       /\ answers.cancel # "none" => PlacedOnce

C14_PlacedAfterFailedCancel ==
    /\ WasResting
    /\ Placeable
    /\ EditGaveUp
    /\ answers.cancel \in ErrorKinds \ {"OrderNotFound"}
    /\ Act.pc = "create"

\* C15: a resting side whose target has shouldPlace = false: exactly one
\* cancel, of the tracked id, and no edit and no placement; once the cancel is
\* answered, with success, not found or any other error, the call has
\* returned normally and the side is untracked.
C15_NoTargetCancels ==
    (WasResting /\ ~request.shouldPlace)
    => /\ Issued = [NoCalls EXCEPT !.cancel = 1]
       /\ cancelled = {Act.orderId}
       /\ answers.cancel = "none" => Act.pc = "cancel"
       /\ answers.cancel # "none" => Returned /\ TrackedNow = Null
       /\ thrown = "none"

C15_CancelFailed ==
    /\ WasResting
    /\ ~request.shouldPlace
    /\ answers.cancel \in ErrorKinds \ {"OrderNotFound"}
    /\ Returned

\* C16: an untracked side with shouldPlace = true and amount >= minAmount:
\* exactly one placement, with the target amount and price, and no other
\* call; the side tracks the returned id, and stays untracked when the
\* placement failed or returned no id; the call returns normally.
C16_UntrackedPlaces ==
    (WasUntracked /\ Placeable)
    => /\ Issued = [NoCalls EXCEPT !.create = 1]
       /\ Act.targetAmount = request.amount
       /\ Act.targetPrice = request.price
       /\ PlacedOnce
       /\ thrown = "none"

C16_NoIdReturned ==
    /\ WasUntracked
    /\ Placeable
    /\ answers.create = "noId"
    /\ Returned

\* C17: an untracked side with shouldPlace = false or amount < minAmount: the
\* call returns without any gateway call and the side stays untracked.
C17_UntrackedIdle ==
    (WasUntracked /\ ~Placeable)
    => /\ Returned
       /\ Issued = NoCalls
       /\ cancelled = {}
       /\ answers = NoAnswers
       /\ TrackedNow = Null

C17_FlaggedButBelowMinimum ==
    /\ WasUntracked
    /\ request.shouldPlace
    /\ RLt(request.amount, market.minAmount)
    /\ Returned

\* ------------------------------------------------------------------------
\* The pure functions (FnSpec)
\* ------------------------------------------------------------------------
\* x is a whole number of units
IsMultiple(x, unit) == IsNumber(x) /\ RDiv(x, unit)[2] = 1

\* the call of calculateDepthMidPrice has returned
MidReturned == fnCall.fn = "mid" /\ fnResult.times = 1
BestBid == fnCall.orderBook.bids[1][1]
BestAsk == fnCall.orderBook.asks[1][1]
\* the prices of the last levels the averages look at
DeepestBid ==
    fnCall.orderBook.bids[IntMin(Len(fnCall.orderBook.bids), config.orderBookDepthLevels)][1]
DeepestAsk ==
    fnCall.orderBook.asks[IntMin(Len(fnCall.orderBook.asks), config.orderBookDepthLevels)][1]
BothVwaps ==
    /\ IsNumber(calculateVwap(fnCall.orderBook.bids, config.orderBookDepthLevels))
    /\ IsNumber(calculateVwap(fnCall.orderBook.asks, config.orderBookDepthLevels))
SimpleMid == RDiv(RAdd(BestBid, BestAsk), Num(2))

\* C18 as stated: with both averages available the depth mid price lies
\* between the best bid and the best ask, and it is the simple mid otherwise.
C18_WithinBestQuotes ==
    MidReturned
    => /\ IsNumber(fnResult.value)
       /\ IF BothVwaps
          THEN RLe(BestBid, fnResult.value) /\ RLe(fnResult.value, BestAsk)
          ELSE fnResult.value = SimpleMid

\* C18 amended: for every usable order book and every depth, with both
\* averages available the depth mid price is >= the lowest bid price and <=
\* the highest ask price among the levels within the depth, and it equals
\* (best bid + best ask)/2 when an average is unavailable.
C18_WithinDepthQuotes ==
    MidReturned
    => /\ IsNumber(fnResult.value)
       /\ IF BothVwaps
          THEN RLe(DeepestBid, fnResult.value) /\ RLe(fnResult.value, DeepestAsk)
          ELSE fnResult.value = SimpleMid

\* a deep bid level pulls the mid price below the best bid
C18_MidBelowBestBid ==
    /\ MidReturned
    /\ BothVwaps
    /\ RLt(fnResult.value, BestBid)

\* the plan has been computed and goes to the two manageOrder calls
PlanHanded == fnCall.fn = "plan" /\ fnResult.times = 1 /\ fnResult.value.ok

\* C19: the amounts of a plan handed to reconciliation are non-negative
\* multiples of stepSize and its prices multiples of tickSize.
C19_PlanAligned ==
    PlanHanded
    => /\ IsMultiple(fnResult.value.buyAmount, market.stepSize)
       /\ IsMultiple(fnResult.value.sellAmount, market.stepSize)
       /\ RLe(Zero, fnResult.value.buyAmount)
       /\ RLe(Zero, fnResult.value.sellAmount)
       /\ IsMultiple(fnResult.value.buyPrice, market.tickSize)
       /\ IsMultiple(fnResult.value.sellPrice, market.tickSize)

\* the sell amount was clamped to a held position that is no multiple of the
\* step
C19_SellClamped ==
    /\ PlanHanded
    /\ fnResult.value.placeSell
    /\ RLt(Zero, fnCall.snap.position)
    /\ ~IsMultiple(fnCall.snap.position, market.stepSize)
    /\ RLt(Zero, fnResult.value.sellAmount)
    /\ fnResult.value.sellAmount
          = adjustAmountToStepSize(fnCall.snap.position, market.stepSize)

\* C20: aligning an aligned price gives the same price, and a price that is
\* a multiple of the tick is returned unchanged.
C20_AlignIdempotent ==
    fnCall.fn = "align"
    => /\ fnResult.times = 2 => fnResult.value = fnResult.previous
       /\ (fnResult.times = 1 /\ IsMultiple(fnCall.price, fnCall.tickSize))
          => fnResult.value = fnCall.price
       /\ fnResult.times >= 1 => IsMultiple(fnResult.value, fnCall.tickSize)

\* a price off the grid was moved and then aligned once more
C20_RealignedMovedPrice ==
    /\ fnCall.fn = "align"
    /\ fnResult.times = 2
    /\ fnResult.value # fnCall.price

\* the call of adjustAmountToStepSize has returned
StepReturned == fnCall.fn = "step" /\ fnResult.times = 1

\* x is a whole number of steps; only 0 is a multiple of a step of 0, and
\* nothing is a multiple of an undefined step
WholeSteps(x, stepSize) ==
    /\ IsNumber(stepSize)
    /\ IF stepSize = Zero THEN x = Zero ELSE IsMultiple(x, stepSize)

\* C21 as stated: for every amount and every stepSize the aligned amount is
\* not greater than the amount and is a non-negative multiple of stepSize.
C21_StepAlignAnyInput ==
    StepReturned
    => /\ RLe(fnResult.value, fnCall.amount)
       /\ RLe(Zero, fnResult.value)
       /\ WholeSteps(fnResult.value, fnCall.stepSize)

\* C21 amended: for every amount a >= 0 and every stepSize > 0 the aligned
\* amount is not greater than a and is a non-negative multiple of stepSize.
C21_StepAlignDown ==
    (/\ StepReturned
     /\ RLe(Zero, fnCall.amount)
     /\ IsNumber(fnCall.stepSize)
     /\ RLt(Zero, fnCall.stepSize))
    => /\ RLe(fnResult.value, fnCall.amount)
       /\ RLe(Zero, fnResult.value)
       /\ WholeSteps(fnResult.value, fnCall.stepSize)

\* an amount off the grid was lowered to a positive multiple of the step
C21_LoweredToStep ==
    /\ StepReturned
    /\ IsNumber(fnCall.stepSize)
    /\ RLt(Zero, fnCall.stepSize)
    /\ RLt(Zero, fnResult.value)
    /\ RLt(fnResult.value, fnCall.amount)

\* the target prices of runCycle have been computed
SkewReturned == fnCall.fn = "skew" /\ fnResult.times = 1
SkewEnabled ==
    RLt(Zero, config.inventorySkewIntensity) /\ RLt(Zero, config.positionLimit)
Spread == TargetSpreadAbs(config, fnCall.depthMidPrice)
BaselineBuy == RSub(fnCall.depthMidPrice, RDiv(Spread, Num(2)))
BaselineSell == RAdd(fnCall.depthMidPrice, RDiv(Spread, Num(2)))
\* position / positionLimit, held within [-1, 1]
ClampedRatio ==
    LET r == RDiv(fnCall.position, config.positionLimit)
    IN  IF RLt(One, r) THEN One ELSE IF RLt(r, Num(-1)) THEN Num(-1) ELSE r
ExpectedSkew == RMul(RMul(Spread, ClampedRatio), config.inventorySkewIntensity)

\* C22: with the skew enabled both prices are the baseline mid -/+ spread/2
\* moved by -skew, skew = spread x ratio x intensity with the ratio
\* position / positionLimit clamped to [-1, 1], so that the shift never exceeds
\* spread x intensity, sell - buy stays the spread, and with a positive spread
\* a long position lowers both prices and a short one raises both; with
\* positionLimit 1, intensity 1/2, spread 10 and position 1 both prices are 5
\* below the baseline; with the skew disabled the prices are the baseline.
C22_SkewShiftsBothQuotes ==
    SkewReturned
    => /\ RSub(fnResult.value.sell, fnResult.value.buy) = Spread
       /\ SkewEnabled
          => /\ fnResult.value.buy = RSub(BaselineBuy, ExpectedSkew)
             /\ fnResult.value.sell = RSub(BaselineSell, ExpectedSkew)
             /\ RLe(RAbs(RSub(fnResult.value.buy, BaselineBuy)),
                    RAbs(RMul(Spread, config.inventorySkewIntensity)))
             /\ (RLt(Zero, Spread) /\ RLt(Zero, fnCall.position))
                => RLt(fnResult.value.buy, BaselineBuy)
             /\ (RLt(Zero, Spread) /\ RLt(fnCall.position, Zero))
                => RLt(BaselineBuy, fnResult.value.buy)
             /\ (config = CfgSpreadTen /\ fnCall.position = One)
                => /\ fnResult.value.buy = RSub(BaselineBuy, Num(5))
                   /\ fnResult.value.sell = RSub(BaselineSell, Num(5))
       /\ ~SkewEnabled
          => /\ fnResult.value.buy = BaselineBuy
             /\ fnResult.value.sell = BaselineSell

\* a position beyond the limit: the ratio is clamped
C22_BeyondLimit ==
    /\ SkewReturned
    /\ SkewEnabled
    /\ RLt(config.positionLimit, fnCall.position)
    /\ fnResult.value.buy = RSub(BaselineBuy, RMul(Spread, config.inventorySkewIntensity))

\* ------------------------------------------------------------------------
\* Who writes the tracked ids and the traded volume (Spec)
\* ------------------------------------------------------------------------
\* this step is a turn of the manageOrder activation of side s
ReconcilerTurn(s) ==
    /\ cyclePc \in {"fetch", "reconcile"}
    /\ cyclePc' \in {"reconcile", "volume"}
    /\ mo'[s] # mo[s]
    /\ Started(s)'

\* this step is the start of cancelStaleOrdersIfNeeded
CleanupTurn ==
    /\ ~cleanupRan
    /\ cleanupRan'
    /\ currentOrderId' = [s \in Sides |-> Null]

\* this step begins the manageOrder activation of side s
ReconcilerBegins(s) == ~Started(s) /\ Started(s)'

\* the volume state changes only in the turn that handles a successful answer
\* of fetchMyTrades with new volume
VolumeWrittenByTrackerOnly ==
    (<<totalTradedBaseVolume, lastTradeTimestamp>>'
        # <<totalTradedBaseVolume, lastTradeTimestamp>>)
    => /\ cyclePc = "volume"
       /\ tradesAnswer' = "trades"
       /\ totalTradedBaseVolume' > totalTradedBaseVolume
       /\ lastTradeTimestamp' > lastTradeTimestamp

\* C23 as stated: a tracked id changes only in a turn of its side's
\* manageOrder, every cycle runs manageOrder once per side, and the volume
\* state changes only in the volume update after a successful fetch with new
\* volume.
C23_OnlyReconcilerWrites ==
    [][/\ \A s \in Sides :
             /\ currentOrderId'[s] # currentOrderId[s] => ReconcilerTurn(s)
             /\ (cyclePc # "idle" /\ cyclePc' = "idle") => mo'[s].pc = "done"
       /\ VolumeWrittenByTrackerOnly]_vars

\* C23 amended: a tracked id changes only in a turn of its side's manageOrder
\* or at the start of the stale-order cleanup, which clears both ids;
\* manageOrder begins at most once per side per cycle, for both sides together
\* when the plan is handed over, and never in a cycle that cleans up; the
\* volume state changes only in the volume update after a successful fetch
\* with new volume.
C23_ReconcilerOrCleanupWrites ==
    [][/\ \A s \in Sides :
             /\ currentOrderId'[s] # currentOrderId[s]
                => ReconcilerTurn(s) \/ CleanupTurn
             /\ ReconcilerBegins(s)
                => /\ cyclePc = "fetch"
                   /\ \A t \in Sides : ReconcilerBegins(t)
             /\ (cyclePc = "fetch" /\ cyclePc' \in {"reconcile", "volume"})
                => ReconcilerBegins(s)
             /\ cleanupRan' => ~Started(s)'
       /\ (cyclePc # "fetch" /\ cyclePc' = "fetch") => cycles' = cycles + 1
       /\ VolumeWrittenByTrackerOnly]_vars

\* volume was counted and, in a later cycle, the cleanup cleared tracked ids
C23_CleanupAfterVolume ==
    /\ totalTradedBaseVolume > 0
    /\ cleanupRan
    /\ cancelled # {}
    /\ \A s \in Sides : currentOrderId[s] = Null

\* ------------------------------------------------------------------------
\* The two reconciliations of a cycle (CycleSpec)
\* ------------------------------------------------------------------------
PlannedPrice(s) == IF s = "buy" THEN quote.buyPrice ELSE quote.sellPrice

\* manageOrder for side s run alone on the id it found tracked, the target of
\* the plan and the answers its own calls have received so far
RunAlone(s) ==
    LET a == sideAnswers[s]
        r0 == manageOrderStart(PlannedFlag(s), PlannedAmount(s), PlannedPrice(s),
                               mo[s].orderId)
        r1 == IF r0.call = "edit" /\ a.edit # "none"
              THEN AfterEdit(r0.mo, r0.id, a.edit) ELSE r0
        r2 == IF r1.call = "cancel" /\ a.cancel # "none"
              THEN AfterCancel(r1.mo, r1.id, cancelOrder(a.cancel), a.cancel) ELSE r1
    IN  IF r2.call = "create" /\ a.create # "none"
        THEN AfterCreate(r2.mo, NewOrderId(cycles, s), a.create) ELSE r2

\* C24: in every interleaving of the turns of the two manageOrder activations
\* each side's activation and tracked id are what manageOrder run alone gives
\* for that side's own tracked id, target and answers, so the ids at the end
\* are those of the two runs one after the other in either order; while an
\* activation is pending no cleanup has run and the trade fetch has not been
\* answered.
C24_SidesCommute ==
    \A s \in Sides :
        Started(s)
        => /\ mo[s] = RunAlone(s).mo
           /\ currentOrderId[s] = RunAlone(s).id
           /\ ~cleanupRan
           /\ mo[s].pc # "done" => cyclePc = "reconcile" /\ tradesAnswer = "none"

\* both sides tracked an order; the buy side lost it to a failed edit and a
\* failed placement after the sell side had kept its own
C24_OneSideLostOrder ==
    /\ mo["buy"].pc = "done"
    /\ mo["sell"].pc = "done"
    /\ mo["buy"].orderId # Null
    /\ mo["sell"].orderId # Null
    /\ sideAnswers["buy"].create = "ExchangeError"
    /\ currentOrderId["buy"] = Null
    /\ currentOrderId["sell"] = mo["sell"].orderId

\* ------------------------------------------------------------------------
\* The stop signal (FairSpec)
\* ------------------------------------------------------------------------
\* this step is the signal handler clearing the run flag
SignalStep == running /\ ~running' /\ mainPc' = mainPc /\ cyclePc' = cyclePc

\* C25: the signal handler only clears the run flag, leaving the cycle in
\* progress and the tracked state as they are; a cycle in progress when the
\* flag is cleared runs on to its end; main leaves the cycle only when the
\* cycle has ended; and no cycle starts while the flag is cleared.
C25_StopIsCooperative ==
    /\ [][/\ SignalStep => UNCHANGED <<cycleVars, currentOrderId, volVars>>
          /\ (mainPc = "cycle" /\ mainPc' # "cycle")
             => cyclePc' = "idle" /\ ended' \in {"returned", "threw"}
          /\ cycles' # cycles => running /\ running'
          /\ running' => running]_vars
    /\ ((~running /\ cyclePc # "idle") ~> (cyclePc = "idle" /\ ended # "no"))

\* the flag was cleared during a cycle that went on through its volume
\* update and returned
C25_CycleFinishedAfterSignal ==
    /\ ~running
    /\ mainPc = "final"
    /\ ended = "returned"
    /\ tradesAnswer = "trades"
    /\ cycles = 1

\* ------------------------------------------------------------------------
\* Backoff of the driver loop (Spec)
\* ------------------------------------------------------------------------
\* the venue errors that pass with time
Transient(kind) ==
    kind \in {"RateLimitExceeded", "ExchangeNotAvailable", "NetworkError"}

\* C26: the step that ends a cycle which failed with a transient venue error
\* takes the driver loop, while it keeps running, to the longer sleep of the
\* catch block (lines 34, 37, 43) and not straight to the one-interval wait.
C26_TransientBacksOff ==
    [][(cyclePc # "idle" /\ cyclePc' = "idle" /\ Transient(caught') /\ running')
       => mainPc' = "backoff"]_vars

\* ------------------------------------------------------------------------
\* The gates of the plan (CycleSpec)
\* ------------------------------------------------------------------------
\* the plan of each snapshot, tabulated once
PlanTable ==
    [c \in Configs |-> [m \in Markets |-> [s \in Snapshots |-> PlanQuotes(c, m, s)]]]

\* the cycle planned its quotes from snapshot s and went on to reconcile
PlannedFrom(s) == quote.ok /\ PlanTable[config][market][s] = quote

PlaceFlag(q, side) == IF side = "buy" THEN q.placeBuy ELSE q.placeSell
PlanAmount(q, side) == IF side = "buy" THEN q.buyAmount ELSE q.sellAmount
PlanPrice(q, side) == IF side = "buy" THEN q.buyPrice ELSE q.sellPrice
Opposite(side) == IF side = "buy" THEN "sell" ELSE "buy"

\* the limit is set and the position is at or beyond it
AtLimit(cfg, position) ==
    RLt(Zero, cfg.positionLimit) /\ RLe(cfg.positionLimit, RAbs(position))
\* the side that would add to the position
Increasing(position) == IF RLt(Zero, position) THEN "buy" ELSE "sell"

\* plans before the gate: both sides allowed, any small amounts
GateAmounts == {Zero, Q(1, 2), One, Num(2), Num(3)}
GateInputs ==
    {[ok |-> TRUE, placeBuy |-> TRUE, buyAmount |-> b, buyPrice |-> Num(10),
      placeSell |-> TRUE, sellAmount |-> a, sellPrice |-> Num(12)] :
        b \in GateAmounts, a \in GateAmounts}

\* what lines 271-287 do to a plan, for every configuration and position
PositionGateRaises ==
    \A cfg \in SkewConfigs : \A position \in Positions \cup FinePositions :
    \A q \in GateInputs :
        LET g == PositionGate(cfg, position, q)
            f == Increasing(position)
            o == Opposite(f)
        IN  /\ AtLimit(cfg, position)
               => /\ ~PlaceFlag(g, f)
                  /\ PlaceFlag(g, o)
                  /\ RLe(RAbs(position), PlanAmount(g, o))
                  /\ RLe(PlanAmount(q, o), PlanAmount(g, o))
                  /\ PlanAmount(g, o) \in {PlanAmount(q, o), RAbs(position)}
            /\ (RLt(Zero, cfg.positionLimit) /\ RLt(RAbs(position), cfg.positionLimit))
               => g = q

\* C27: with the position at or beyond a positive limit, the gate forbids
\* the side that adds to the position and raises the amount of the other
\* side to at least |position|; below the limit it leaves the plan as it is;
\* a cycle that planned from such a snapshot handed the forbidden side to
\* reconciliation as not to be placed, issued no create and no edit on it
\* and issued a cancel for the order it tracked there; the other side, if
\* the later gates still allow it, carries at least |position| floored to
\* the step.
C27_HardPositionGate ==
    /\ PositionGateRaises
    /\ \A s \in Snapshots :
          (PlannedFrom(s) /\ AtLimit(config, s.position))
          => LET f == Increasing(s.position)
                 o == Opposite(f)
             IN  /\ ~PlaceFlag(quote, f)
                 /\ calls[f].create = 0
                 /\ calls[f].edit = 0
                 /\ mo[f].orderId # Null
                    => calls[f].cancel = 1 /\ mo[f].orderId \in cancelled
                 /\ mo[f].orderId = Null => calls[f].cancel = 0
                 /\ PlaceFlag(quote, o)
                    => RLe(adjustAmountToStepSize(RAbs(s.position), market.stepSize),
                           PlanAmount(quote, o))

\* long at the limit: the tracked buy order was cancelled and the sell side
\* quoted the whole position
C27_LongAtLimitCancelledBuy ==
    \E s \in Snapshots :
        /\ PlannedFrom(s)
        /\ AtLimit(config, s.position)
        /\ RLt(Zero, s.position)
        /\ mo["buy"].orderId # Null
        /\ sideAnswers["buy"].cancel = "ok"
        /\ currentOrderId["buy"] = Null
        /\ quote.placeSell
        /\ quote.sellAmount = s.position
        /\ cyclePc = "idle"

\* the snapshot with a balance that covers any buy of the model
Rich(s) == [s EXCEPT !.balance = Num(100)]
\* the buy that would be planned from s were the balance no limit
BuyWanted(s) == PlanTable[config][market][Rich(s)]
\* the balance gate acts on s: a buy is planned and costs more than the
\* balance of s
BuyTooDear(s) ==
    /\ BuyWanted(s).ok
    /\ BuyWanted(s).placeBuy
    /\ RLt(s.balance, RMul(BuyWanted(s).buyAmount, BuyWanted(s).buyPrice))

GateBalances == {Zero, Num(5), Num(20), Num(100)}

\* what lines 308-313 do to a plan whose buy side is still allowed
BalanceGateForbids ==
    \A balance \in GateBalances : \A q \in GateInputs :
        LET g == BalanceGate(balance, q)
        IN  IF RLt(balance, RMul(q.buyAmount, q.buyPrice))
            THEN g = [q EXCEPT !.placeBuy = FALSE, !.buyAmount = Zero]
            ELSE g = q

OldOrderOpen(side) ==
    /\ mo[side].orderId # Null
    /\ \/ sideAnswers[side].cancel = "ExchangeError"
       \/ /\ sideAnswers[side].cancel = "none"
          /\ sideAnswers[side].edit \in {"ok", "NoChange"}

\* the venue accepted a placement of the side in this cycle
NewOrderOpen(side) == sideAnswers[side].create = "ok"

\* C35: when a cycle has returned, an order of a side that is still open at
\* the venue is the tracked order of that side, so the order the side
\* tracked before and an order placed in the cycle are never both open,
\* whatever the edit, cancel and place calls answered.
C35_OpenOrdersAreTracked ==
    (cyclePc = "idle" /\ ended = "returned")
    => \A side \in Sides :
          /\ OldOrderOpen(side) => currentOrderId[side] = mo[side].orderId
          /\ NewOrderOpen(side) => currentOrderId[side] = NewOrderId(cycles, side)
          /\ ~(OldOrderOpen(side) /\ NewOrderOpen(side))

\* ------------------------------------------------------------------------
\* The gates of the plan, as functions of the snapshot (FnSpec)
\* ------------------------------------------------------------------------
Notional(q, side) == RMul(PlanAmount(q, side), PlanPrice(q, side))

\* C28: in a plan handed to reconciliation, a side whose amount times price
\* is below minNotionalValue, an amount of zero included, is not to be
\* placed and has amount 0; so a side that is to be placed has a notional of
\* at least minNotionalValue.
C28_NotionalGate ==
    PlanHanded
    => \A side \in Sides :
          RLt(Notional(fnResult.value, side), config.minNotionalValue)
          => /\ ~PlaceFlag(fnResult.value, side)
             /\ PlanAmount(fnResult.value, side) = Zero

\* what lines 315-333 do to a plan whose sell side is still allowed, under
\* the configuration and market of the state
SellGateClamps ==
    \A position \in Positions \cup FinePositions : \A q \in GateInputs :
        LET g == SellPositionGate(config, market, position, q)
            clamped == adjustAmountToStepSize(position, market.stepSize)
        IN  IF RLt(position, Zero) THEN g = q
            ELSE IF RLe(q.sellAmount, RAdd(position, market.stepSize)) THEN g = q
            ELSE IF \/ RLt(clamped, market.minAmount)
                    \/ RLt(RMul(clamped, q.sellPrice), config.minNotionalValue)
            THEN g = [q EXCEPT !.placeSell = FALSE, !.sellAmount = Zero]
            ELSE g = [q EXCEPT !.sellAmount = clamped]

\* C30: with a flat or long position the sell amount of a plan handed to
\* reconciliation is at most position + stepSize; the gate replaces a larger
\* amount by the position floored to the step, and forbids the sell with
\* amount 0 when that is below minAmount or its notional below
\* minNotionalValue; with a short position, and with an amount within the
\* tolerance, it leaves the plan as it is.
C30_SellPositionGate ==
    PlanHanded
    => /\ RLe(Zero, fnCall.snap.position)
          => RLe(fnResult.value.sellAmount,
                 RAdd(fnCall.snap.position, market.stepSize))
       /\ SellGateClamps

\* a sell of 2 was planned with 3/4 held and a step of 1/2: the clamped
\* amount of 1/2 is below minAmount and the sell is forbidden
C30_ClampedBelowMinimum ==
    /\ PlanHanded
    /\ config = CfgNormal
    /\ market.stepSize = Q(1, 2)
    /\ fnCall.snap.position = Q(3, 4)
    /\ fnCall.snap.balance = Num(100)
    /\ fnCall.snap.orderBook = Book(<<Lv(10, 3), Lv(9, 3)>>, <<Lv(12, 3), Lv(13, 3)>>)
    /\ fnResult.value.placeBuy
    /\ ~fnResult.value.placeSell
    /\ fnResult.value.sellAmount = Zero

\* ------------------------------------------------------------------------
\* Liquidity scaling (FnSpec)
\* ------------------------------------------------------------------------
Scaled == fnCall.fn = "liquidity" /\ fnResult.times = 1 /\ fnResult.value.ok

\* the levels of a side whose price is within r of the price
NearLevels(orders, price, r) ==
    {i \in 1..Len(orders) :
        /\ IsNumber(orders[i][1])
        /\ RLe(RAbs(RSub(orders[i][1], price)), r)}

RECURSIVE SumSizes(_, _)
SumSizes(orders, I) ==
    IF I = {} THEN Zero
    ELSE LET i == CHOOSE x \in I : TRUE
         IN  RAdd(orders[i][2], SumSizes(orders, I \ {i}))

BookSide(orderBook, side) == IF side = "buy" THEN orderBook.bids ELSE orderBook.asks

\* L: the resting size near the final price of a side
NearLiquidity(side) ==
    SumSizes(BookSide(fnCall.snap.orderBook, side),
             NearLevels(BookSide(fnCall.snap.orderBook, side),
                        PlanPrice(fnResult.value, side),
                        RMul(config.rangeTicksForLiquidity, market.tickSize)))

\* C31: the amount of each side before the gates is baseAmount * min(1, L /
\* liquidityVolumeThreshold), L being the resting size of that side within
\* rangeTicksForLiquidity * tickSize of the price the plan quotes; it is at
\* most baseAmount, baseAmount when L >= threshold, and 0 when L = 0; the
\* price is the one of the final plan.
C31_LiquidityScaling ==
    Scaled
    => \A side \in Sides :
          LET L == NearLiquidity(side)
              amount == PlanAmount(fnResult.value, side)
              plan == PlanQuotes(config, market, fnCall.snap)
          IN  /\ amount = RMul(config.baseAmount,
                               RMin(One, RDiv(L, config.liquidityVolumeThreshold)))
              /\ RLe(amount, config.baseAmount)
              /\ RLe(config.liquidityVolumeThreshold, L) => amount = config.baseAmount
              /\ L = Zero => amount = Zero
              /\ plan.ok /\ PlanPrice(plan, side) = PlanPrice(fnResult.value, side)

\* a thin bid side scales the buy down while the ask side carries the full
\* amount
C31_ThinBidsFullAsks ==
    /\ Scaled
    /\ RLt(Zero, fnResult.value.buyAmount)
    /\ RLt(fnResult.value.buyAmount, config.baseAmount)
    /\ fnResult.value.sellAmount = config.baseAmount
    /\ RLt(config.liquidityVolumeThreshold, NearLiquidity("sell"))

\* ------------------------------------------------------------------------
\* calculateVwap (FnSpec)
\* ------------------------------------------------------------------------
VwapReturned == fnCall.fn = "vwap" /\ fnResult.times = 1

\* an entry with a price > 0 and a size > 0
PricedLevel(lv) ==
    IsNumber(lv[1]) /\ IsNumber(lv[2]) /\ RLt(Zero, lv[1]) /\ RLt(Zero, lv[2])

\* the first `depth` entries of a side that are priced levels
PricedWithin(orders, depth) ==
    {i \in 1..IntMin(Len(orders), depth) : PricedLevel(orders[i])}

RECURSIVE SumNotional(_, _)
SumNotional(orders, I) ==
    IF I = {} THEN Zero
    ELSE LET i == CHOOSE x \in I : TRUE
         IN  RAdd(RMul(orders[i][1], orders[i][2]), SumNotional(orders, I \ {i}))

\* C32: calculateVwap returns the size-weighted average price of the first
\* `levels` entries that have a price > 0 and a size > 0, and no value when
\* the side is empty, levels <= 0, or those entries have no volume.
C32_VwapOverValidLevels ==
    VwapReturned
    => LET I == PricedWithin(fnCall.orders, fnCall.levels)
           volume == SumSizes(fnCall.orders, I)
       IN  IF Len(fnCall.orders) = 0 \/ fnCall.levels <= 0 \/ volume = Zero
           THEN fnResult.value = Undef
           ELSE fnResult.value = RDiv(SumNotional(fnCall.orders, I), volume)

\* ------------------------------------------------------------------------
\* calculateDepthMidPrice on any book (FnSpec)
\* ------------------------------------------------------------------------
BookReturned == fnCall.fn = "book" /\ fnResult.times = 1

BidVwap == calculateVwap(fnCall.orderBook.bids, fnCall.levels)
AskVwap == calculateVwap(fnCall.orderBook.asks, fnCall.levels)

\* both sides have a level and the first prices are numbers
BestQuotesKnown ==
    /\ fnCall.orderBook.present
    /\ Len(fnCall.orderBook.bids) > 0
    /\ Len(fnCall.orderBook.asks) > 0
    /\ IsNumber(fnCall.orderBook.bids[1][1])
    /\ IsNumber(fnCall.orderBook.asks[1][1])

\* C33: calculateDepthMidPrice is (bid VWAP + ask VWAP)/2 when both averages
\* exist, (best bid + best ask)/2 when one does not but both sides have a
\* best price, and no price otherwise, in which case the cycle plans nothing;
\* for the example book with levels = 2 the averages are 99.95 and 100.15
\* and the mid price is 100.05.
C33_DepthMidCases ==
    BookReturned
    => /\ IF fnCall.orderBook.present /\ IsNumber(BidVwap) /\ IsNumber(AskVwap)
          THEN fnResult.value = RDiv(RAdd(BidVwap, AskVwap), Num(2))
          ELSE IF BestQuotesKnown
          THEN fnResult.value
                  = RDiv(RAdd(fnCall.orderBook.bids[1][1], fnCall.orderBook.asks[1][1]),
                         Num(2))
          ELSE /\ fnResult.value = Undef
               /\ \A balance \in Balances : \A position \in Positions :
                     ~PlanQuotes(config, market,
                                 [orderBook |-> fnCall.orderBook, balance |-> balance,
                                  position |-> position]).ok
       /\ (fnCall.orderBook = ExampleBook /\ fnCall.levels = 2)
          => /\ BidVwap = Q(9995, 100)
             /\ AskVwap = Q(10015, 100)
             /\ fnResult.value = Q(10005, 100)

\* the example book at a depth of 2
C33_ExampleBookAtTwoLevels ==
    /\ BookReturned
    /\ fnCall.orderBook = ExampleBook
    /\ fnCall.levels = 2
    /\ fnResult.value = Q(10005, 100)

\* ------------------------------------------------------------------------
\* getVolumeNearPrice and getVolumeNearPriceTicks (FnSpec)
\* ------------------------------------------------------------------------
VolumeReturned == fnCall.fn = "volume" /\ fnResult.times = 1

\* the levels with a size whose price p has target - r <= p <= target + r
LevelsInRange(orders, target, r) ==
    {i \in 1..Len(orders) :
        /\ IsNumber(orders[i][1])
        /\ IsNumber(orders[i][2])
        /\ RLe(RSub(target, r), orders[i][1])
        /\ RLe(orders[i][1], RAdd(target, r))}

\* C34: with a tick size > 0 the volume near a price is the sum of the sizes
\* of all levels whose price lies in [target - r, target + r], bounds
\* included, for r = rangeTicks * tickSize, and 0 for r < 0 or an empty side;
\* with a tick size that is missing or <= 0 it is 0, and a number in every
\* case.
C34_VolumeNearPrice ==
    VolumeReturned
    => LET r == RMul(fnCall.rangeTicks, fnCall.tickSize)
       IN  /\ IsNumber(fnResult.value)
           /\ IF ~IsNumber(fnCall.tickSize) \/ RLe(fnCall.tickSize, Zero)
              THEN fnResult.value = Zero
              ELSE IF RLt(r, Zero) \/ Len(fnCall.orders) = 0
              THEN fnResult.value = Zero
              ELSE fnResult.value
                      = SumSizes(fnCall.orders,
                                 LevelsInRange(fnCall.orders, fnCall.targetPrice, r))

\* levels on both bounds of the range are counted: target 11, range 1,
\* levels at 10 and at 12
C34_BothBoundsCounted ==
    /\ VolumeReturned
    /\ fnCall.targetPrice = Num(11)
    /\ fnCall.rangeTicks = Num(2)
    /\ fnCall.tickSize = Q(1, 2)
    /\ fnCall.orders = <<<<Num(10), One>>, <<Num(12), Num(3)>>>>
    /\ fnResult.value = Num(4)

\* ------------------------------------------------------------------------
\* The traded volume against the trades at the venue (VolumeSpec)
\* ------------------------------------------------------------------------
\* C36: when an update has succeeded, totalTradedBaseVolume is the sum of
\* the amounts of all trades at the venue whose timestamp is at most the
\* largest timestamp returned so far.
C36_NoTradeSkipped ==
    tradesAnswer = "trades"
    => totalTradedBaseVolume
          = SumAmounts({t \in venue.trades : t.timestamp <= venue.returned})

\* C37: over the updates the watermark never decreases (undefined being
\* below every value), and an update that changes it sets it strictly above
\* the watermark it had and strictly above the timestamp of every trade
\* counted so far.
C37_WatermarkAdvances ==
    [][/\ lastTradeTimestamp' >= lastTradeTimestamp
       /\ lastTradeTimestamp' # lastTradeTimestamp
          => /\ lastTradeTimestamp' > OrZero(lastTradeTimestamp)
             /\ \A t \in counted' : lastTradeTimestamp' > t.timestamp]_vars

\* the watermark stands above the latest of several counted trades
C37_WatermarkAboveCounted ==
    /\ tradesAnswer = "trades"
    /\ Cardinality(counted) >= 2
    /\ lastTradeTimestamp = MaxTimestamp(counted, 0) + 1
    /\ \E t \in counted : t.timestamp + 1 < lastTradeTimestamp

\* the tracked id of `side` was returned by a placement on that side
PlacedOnSide(side) ==
    [side |-> side, id |-> currentOrderId[side]] \in orderLog.placed

\* a cancel of manageOrder for the tracked id of `side` awaits its answer
CancelPending(side) ==
    /\ mo[side].pc \in {"cancel", "cancelFallback", "cancelUnsupported"}
    /\ mo[side].orderId = currentOrderId[side]

\* C38 as stated: a tracked id was returned by a successful placement on its
\* side and no cancel has been issued for it; no edit and no cancel is ever
\* issued for an id after a cancel was issued for it.
C38_TrackedIdNeverCancelled ==
    /\ \A side \in Sides :
          currentOrderId[side] # Null
          => /\ PlacedOnSide(side)
             /\ currentOrderId[side] \notin orderLog.cancelIssued
    /\ ~orderLog.reissued

\* C38: a tracked id was returned by a successful placement on its side, and
\* a cancel has been issued for it only while that cancel of manageOrder
\* awaits its answer (the id is dropped when the call returns; the cleanup
\* drops it before the call); no edit and no cancel is ever issued for an id
\* after a cancel was issued for it.
C38_TrackedIdPlacedAndLive ==
    /\ \A side \in Sides :
          currentOrderId[side] # Null
          => /\ PlacedOnSide(side)
             /\ currentOrderId[side] \in orderLog.cancelIssued => CancelPending(side)
    /\ ~orderLog.reissued

\* the order of the first cycle was cancelled and its replacement is tracked
C38_ReplacementTracked ==
    \E side \in Sides :
        /\ NewOrderId(1, side) \in orderLog.cancelIssued
        /\ currentOrderId[side] = NewOrderId(cycles, side)
        /\ cycles > 1
        /\ mo[side].pc = "done"

\* ------------------------------------------------------------------------
\* A side quoted cycle after cycle (CycleSpec)
\* ------------------------------------------------------------------------
\* the plan of the cycle has the side placeable
PlanPlaceable(side) ==
    /\ quote.ok
    /\ PlaceFlag(quote, side)
    /\ RLe(market.minAmount, PlanAmount(quote, side))

\* manageOrder of the side has returned and every call it made succeeded
ReconciledCleanly(side) ==
    /\ mo[side].pc = "done"
    /\ \A f \in {"edit", "cancel", "create"} : sideAnswers[side][f] \in {"none", "ok"}

OnlyCall(side, call) == calls[side] = [NoCalls EXCEPT ![call] = 1]

\* C39 as stated: with a placeable plan and every call succeeding, a cycle
\* that starts untracked issues exactly one placement and tracks its id; a
\* cycle that starts tracked issues exactly one edit, no placement and no
\* cancel, and keeps the id.
C39_PlaceThenEdit ==
    \A side \in Sides :
        (PlanPlaceable(side) /\ ReconciledCleanly(side))
        => IF mo[side].orderId = Null
           THEN OnlyCall(side, "create") /\ currentOrderId[side] = NewOrderId(cycles, side)
           ELSE OnlyCall(side, "edit") /\ currentOrderId[side] = mo[side].orderId

\* C39: the same, for a venue that supports editOrder.
C39_PlaceThenEditWhereSupported ==
    \A side \in Sides :
        (PlanPlaceable(side) /\ ReconciledCleanly(side) /\ market.editOrder)
        => IF mo[side].orderId = Null
           THEN OnlyCall(side, "create") /\ currentOrderId[side] = NewOrderId(cycles, side)
           ELSE OnlyCall(side, "edit") /\ currentOrderId[side] = mo[side].orderId

\* the order of the cycle before was edited in place and is still tracked
C39_EditedInPlace ==
    \E side \in Sides :
        /\ PlanPlaceable(side) /\ ReconciledCleanly(side) /\ market.editOrder
        /\ mo[side].orderId = NewOrderId(cycles - 1, side)
        /\ sideAnswers[side].edit = "ok"
        /\ currentOrderId[side] = mo[side].orderId

\* ------------------------------------------------------------------------
\* The end of the run (Spec)
\* ------------------------------------------------------------------------
\* C40: cancelAllOrders is called at most once in a run; a process that has
\* exited after the gateway was created has called it exactly once, and one
\* that exited before has not called it; once the call has ended, whether
\* it succeeded, failed or threw, the process has exited.
C40_OneFinalCancelAll ==
    /\ Len(orderLog.cancelAll) <= 1
    /\ mainPc = "exited"
       => Len(orderLog.cancelAll) = IF exchangeServiceInstance THEN 1 ELSE 0
    /\ Len(orderLog.cancelAll) = 1 => mainPc = "exited"

\* the loop ended in a cycle, the final cancelAllOrders failed and the
\* process has exited all the same
C40_ExitedAfterFailedCancelAll ==
    /\ mainPc = "exited"
    /\ cycles >= 1
    /\ orderLog.cancelAll = <<"false">>

====
